---- MODULE Spec2Model ----
(***************************************************************************)
(* Batch SQL translation client (dwh_migration_client).                    *)
(*                                                                         *)
(* Text and paths are sequences of one-character strings.  A Python dict   *)
(* is a sequence of <<key, value>> pairs in insertion order with unique    *)
(* keys.  The result of a call that may raise is a record                  *)
(* [err |-> BOOLEAN, text |-> sequence].                                    *)
(***************************************************************************)
EXTENDS Integers, Sequences, FiniteSets, TLC

VARIABLES
    macro_expansion_maps,   \* MacroProcessor.macro_expansion_maps of the call under study
    relative_path,          \* the relative_path argument
    text,                   \* the text argument
    expanded,               \* result of MacroProcessor.preprocess(relative_path, text)
    unexpanded,             \* result of MacroProcessor.postprocess(relative_path, expanded.text)
    mpc,                    \* position of the expand / unexpand study: "init", "expanded", "unexpanded"
    input_tree,             \* the paths under ProcessorPipeline._input_path: path -> [kind, text]
    _processors,            \* ProcessorPipeline._processors (GcsProcessor appended last)
    max_workers,            \* size of ProcessorPipeline._executor's pool
    _intermediate_path,     \* where ProcessorPipeline._intermediate_path lies: "None", "outside", "inside" the input root
    upload_uri,             \* ProcessorPipeline.upload_uri
    download_uri,           \* ProcessorPipeline.download_uri
    cpc,                    \* position of BatchSqlTranslator.start_translation
    process_func,           \* the process_func of the current ProcessorPipeline._process call
    visited,                \* paths the rglob loop of _process has already yielded
    queue,                  \* the executor's work queue (FIFO) of submitted relative paths
    futures,                \* futures of the current _process call: path -> [st, step, text, yielded]
    uploaded,               \* blobs under GcsProcessor._upload_path: path -> [exists, text]
    downloaded,             \* blobs under GcsProcessor._download_path: path -> [exists, text]
    output_files,           \* files under ProcessorPipeline._output_path: path -> [exists, text]
    intermediate_files,     \* files under _intermediate_path: <<class, method, path>> -> [exists, text]
    calls,                  \* processor calls made so far: direction -> path -> seq of [proc, inp, out]
    storage_calls,          \* blob calls made by GcsProcessor so far: set of [op, bucket, blob]
    workflow_state,         \* state of the remote migration workflow
    clock,                  \* time.time() - start_time
    processing_seconds,     \* local of _wait_until_job_finished
    job_status,             \* state returned by the last get_migration_workflow, "NONE" before
    job_state,              \* JobState of the controller
    job_requests,           \* arguments of the create_migration_workflow calls made so far
    postprocess_calls,      \* number of ProcessorPipeline.postprocess() invocations
    exit_code,              \* process exit status once the run has ended, -1 while running
    subcommand,             \* the CLI subcommand: "init" or "translate"
    config_yaml,            \* the content of config.yaml, by what its validation finds
    credentials_ok,         \* whether the gcloud credential check passes
    macros_yaml,            \* the macros file: "none", "valid" or "invalid" against MacrosSchema
    clean_up_key,           \* clean_up_tmp_files in the pipeline config: "absent", "true", "false", "invalid"
    marshal,                \* the class marshalling the files: "ProcessorPipeline" or "FileProcessor"
    input_names,            \* names of the regular, non-hidden files under the input directory
    output_path,            \* the path given as --output or as init's directory: [kind, entries]
    tmp_path,               \* the .tmp staging directory: [exists, upload, download]
    start_fs,               \* <<output_path, tmp_path>> when the command was started
    tpc,                    \* position of the command
    raised,                 \* the exception that ended the command, "none" otherwise
    clean_up_tmp_files,     \* ProcessorPipelineConfig.clean_up_tmp_files
    gcs_input,              \* names uploaded under the job's input location
    job_submitted           \* whether a translation job was created

macroVars == <<macro_expansion_maps, relative_path, text, expanded, unexpanded, mpc>>

configVars == <<input_tree, _processors, max_workers, _intermediate_path, upload_uri, download_uri>>

poolVars == <<process_func, visited, queue, futures>>

storeVars == <<uploaded, downloaded, output_files, intermediate_files, calls, storage_calls>>

jobVars == <<workflow_state, clock, processing_seconds, job_status, job_state, job_requests>>

runVars == <<configVars, cpc, poolVars, storeVars, jobVars, postprocess_calls, exit_code>>

inputVars == <<subcommand, config_yaml, credentials_ok, macros_yaml, clean_up_key, marshal,
               input_names, start_fs>>

cliVars == <<inputVars, output_path, tmp_path, tpc, raised, clean_up_tmp_files, gcs_input,
             job_submitted>>

vars == <<macroVars, runVars, cliVars>>

----------------------------------------------------------------------------
(* Generic helpers on sequences and dicts                                  *)

Ok(t) == [err |-> FALSE, text |-> t]

KeyError == [err |-> TRUE, text |-> <<>>]

\* A storage call that raised (NotFound, a network failure).
StorageError == [err |-> TRUE, text |-> <<>>]

Min(S) == CHOOSE x \in S : \A y \in S : x <= y

IsPrefixAt(lit, t, i) ==
    /\ i + Len(lit) - 1 <= Len(t)
    /\ \A j \in 1..Len(lit) : t[i + j - 1] = lit[j]

DictKeys(d) == [i \in 1..Len(d) |-> d[i][1]]

DictHas(d, k) == \E i \in 1..Len(d) : d[i][1] = k

DictGet(d, k) == d[CHOOSE i \in 1..Len(d) : d[i][1] = k][2]

\* d[k] = v of a Python dict: an existing key keeps its position.
DictSet(d, k, v) ==
    IF DictHas(d, k)
    THEN [i \in 1..Len(d) |-> IF d[i][1] = k THEN <<k, v>> ELSE d[i]]
    ELSE Append(d, <<k, v>>)

----------------------------------------------------------------------------
(* re.escape, fnmatch.fnmatch and re.sub                                   *)

SpecialChars == {"$", "{", "}", "*", "?", ".", " ", "|", "\\", "(", ")", "[", "]", "+", "-", "^", "&", "~", "#"}

RECURSIVE escape(_)
escape(s) ==
    IF s = <<>> THEN <<>>
    ELSE (IF Head(s) \in SpecialChars THEN <<"\\", Head(s)>> ELSE <<Head(s)>>)
         \o escape(Tail(s))

\* The literal that the regex compiled from an escaped key matches.
RECURSIVE RegexLiteral(_)
RegexLiteral(k) ==
    IF k = <<>> THEN <<>>
    ELSE IF Head(k) = "\\" /\ Len(k) >= 2
         THEN <<k[2]>> \o RegexLiteral(Tail(Tail(k)))
         ELSE <<Head(k)>> \o RegexLiteral(Tail(k))

\* fnmatch.fnmatch on POSIX (normcase is the identity): "*" matches any run
\* of characters, "/" included; "?" matches one character.
RECURSIVE fnmatch(_, _)
fnmatch(name, pat) ==
    IF pat = <<>> THEN name = <<>>
    ELSE IF Head(pat) = "*"
         THEN \/ fnmatch(name, Tail(pat))
              \/ name # <<>> /\ fnmatch(Tail(name), pat)
         ELSE /\ name # <<>>
              /\ (Head(pat) = "?" \/ Head(pat) = Head(name))
              /\ fnmatch(Tail(name), Tail(pat))

\* "|".join(keys) compiled: the alternatives in order; the join of no keys
\* is the empty pattern, which is one alternative matching the empty string.
\* Variant: the alternatives are tried in the opposite order.
Alternatives_LastFirst(keys) ==
    IF keys = <<>> THEN << <<>> >> ELSE [i \in 1..Len(keys) |-> keys[Len(keys) + 1 - i]]

Alternatives(keys) == IF keys = <<>> THEN << <<>> >> ELSE keys

\* patterns.sub(lambda m: reg_pattern_map[re.escape(m.group(0))], text) from
\* position i; adv is set after an empty match (the next match at i must be
\* non-empty).
RECURSIVE SubFrom(_, _, _, _, _)
SubFrom(alts, reg_pattern_map, t, i, adv) ==
    LET n == Len(t)
        hits == {k \in 1..Len(alts) :
                    LET lit == RegexLiteral(alts[k])
                    IN  IsPrefixAt(lit, t, i) /\ (adv => Len(lit) > 0)}
    IN  IF hits = {}
        THEN IF i > n THEN Ok(<<>>)
             ELSE LET rest == SubFrom(alts, reg_pattern_map, t, i + 1, FALSE)
                  IN  IF rest.err THEN KeyError ELSE Ok(<<t[i]>> \o rest.text)
        ELSE LET lit == RegexLiteral(alts[Min(hits)])
                 key == escape(lit)
             IN  IF ~DictHas(reg_pattern_map, key) THEN KeyError
                 ELSE LET repl == DictGet(reg_pattern_map, key)
                          rest == IF Len(lit) = 0
                                  THEN IF i > n THEN Ok(<<>>)
                                       ELSE SubFrom(alts, reg_pattern_map, t, i, TRUE)
                                  ELSE SubFrom(alts, reg_pattern_map, t, i + Len(lit), FALSE)
                      IN  IF rest.err THEN KeyError ELSE Ok(repl \o rest.text)

\* Variant: the text produced by the scan is scanned again.
sub_Rescan(reg_pattern_map, t) ==
    LET once == SubFrom(Alternatives(DictKeys(reg_pattern_map)), reg_pattern_map, t, 1, FALSE)
    IN  IF once.err THEN once
        ELSE SubFrom(Alternatives(DictKeys(reg_pattern_map)), reg_pattern_map, once.text, 1, FALSE)

sub(reg_pattern_map, t) ==
    SubFrom(Alternatives(DictKeys(reg_pattern_map)), reg_pattern_map, t, 1, FALSE)

----------------------------------------------------------------------------
(* MacroProcessor                                                          *)

\* Variant: a replacement already seen keeps its first token.
RECURSIVE SwapItems_KeepFirst(_, _)
SwapItems_KeepFirst(macro_map, acc) ==
    IF macro_map = <<>> THEN acc
    ELSE SwapItems_KeepFirst(Tail(macro_map),
                             IF DictHas(acc, Head(macro_map)[2]) THEN acc
                             ELSE Append(acc, <<Head(macro_map)[2], Head(macro_map)[1]>>))

\* dict((v, k) for k, v in macro_map.items())
RECURSIVE SwapItems(_, _)
SwapItems(macro_map, acc) ==
    IF macro_map = <<>> THEN acc
    ELSE SwapItems(Tail(macro_map), DictSet(acc, Head(macro_map)[2], Head(macro_map)[1]))

\* Variant: the reversed maps are not swapped.
_get_reversed_maps_NoSwap(maps) == maps

_get_reversed_maps(maps) ==
    [g \in 1..Len(maps) |-> <<maps[g][1], SwapItems(maps[g][2], <<>>)>>]

RECURSIVE MergeTokens(_, _)
MergeTokens(token_map, acc) ==
    IF token_map = <<>> THEN acc
    ELSE MergeTokens(Tail(token_map),
                     DictSet(acc, escape(Head(token_map)[1]), Head(token_map)[2]))

\* Variant: the token maps of all glob patterns are merged, matching or not.
RECURSIVE MergeMaps_AnyGlob(_, _, _)
MergeMaps_AnyGlob(macro_subst_maps, path, acc) ==
    IF macro_subst_maps = <<>> THEN acc
    ELSE MergeMaps_AnyGlob(Tail(macro_subst_maps), path,
                           MergeTokens(Head(macro_subst_maps)[2], acc))

\* "for file_map_key, token_map in macro_subst_maps.items():
\*      if fnmatch.fnmatch(relative_path.as_posix(), file_map_key): ..."
RECURSIVE MergeMaps(_, _, _)
MergeMaps(macro_subst_maps, path, acc) ==
    IF macro_subst_maps = <<>> THEN acc
    ELSE MergeMaps(Tail(macro_subst_maps), path,
                   IF fnmatch(path, Head(macro_subst_maps)[1])
                   THEN MergeTokens(Head(macro_subst_maps)[2], acc)
                   ELSE acc)

_get_all_regex_pattern_mapping(maps, path, use_reversed_map) ==
    MergeMaps(IF use_reversed_map THEN _get_reversed_maps(maps) ELSE maps, path, <<>>)

MacroProcessor_preprocess(maps, path, t) ==
    sub(_get_all_regex_pattern_mapping(maps, path, FALSE), t)

\* Variant: postprocess substitutes with the forward table.
MacroProcessor_postprocess_Forward(maps, path, t) ==
    sub(_get_all_regex_pattern_mapping(maps, path, FALSE), t)

MacroProcessor_postprocess(maps, path, t) ==
    sub(_get_all_regex_pattern_mapping(maps, path, TRUE), t)

----------------------------------------------------------------------------
(* Inputs of the expand / unexpand study                                   *)

MaxTextLen == 3

MacroStrs == { <<>>, <<"a">>, <<"$">>, <<"a", "$">> }

Texts == UNION { [1..n -> {"a", "$"}] : n \in 0..MaxTextLen }

GlobAll == <<"*">>

GlobS == <<"*", ".", "s">>

Globs == { GlobAll, GlobS }

PathXs == <<"x", ".", "s">>

PathXc == <<"x", ".", "c">>

Paths == { PathXs, PathXc }

Items == MacroStrs \X MacroStrs

\* token -> replacement dicts with at most two entries
TokenMaps1 == { <<>> } \cup { <<it>> : it \in Items }

TokenMaps2 == TokenMaps1 \cup { tm \in { <<a, b>> : a \in Items, b \in Items } : tm[1][1] # tm[2][1] }

\* glob -> dict maps with at most two glob patterns and two entries in all
MacroMaps ==
    { <<>> }
    \cup { << <<g, tm>> >> : g \in Globs, tm \in TokenMaps2 }
    \cup { m \in { << <<g1, tm1>>, <<g2, tm2>> >> :
                      g1 \in Globs, g2 \in Globs, tm1 \in TokenMaps1, tm2 \in TokenMaps1 } :
             m[1][1] # m[2][1] }

----------------------------------------------------------------------------
(* GcsProcessor and the processor chain                                    *)

NoBlob == [exists |-> FALSE, text |-> <<>>]

Blob(t) == [exists |-> TRUE, text |-> t]

MacroProcessor(macros) == [cls |-> "MacroProcessor", macros |-> macros]

GcsProcessor == [cls |-> "GcsProcessor", macros |-> <<>>]

\* GcsProcessor.__init__(bucket): the bucket and the paths derived from
\* _gcs_path, which is drawn once per construction.
gcs_bucket == "b"

_gcs_path == "g"

_upload_path == <<_gcs_path, "input">>

_download_path == <<_gcs_path, "output">>

\* f"gs://{bucket}/{path}"
GcsUri(bucket, path) == <<"gs", bucket, path>>

\* bucket.blob(f"{root}/{relative_path}")
BlobName(root, path) == <<root, path>>

\* Variant: preprocess names its blob under the download path.
upload_blob_UnderDownload(path) == BlobName(_download_path, path)

\* The blob GcsProcessor.preprocess uploads to.
upload_blob(path) == BlobName(_upload_path, path)

\* The blob GcsProcessor.postprocess downloads from.
download_blob(path) == BlobName(_download_path, path)

StorageCall(op, blob) == [op |-> op, bucket |-> gcs_bucket, blob |-> blob]

\* Variant: the GcsProcessor is put first.
PipelineProcessors_Prepend(config_processors) == <<GcsProcessor>> \o config_processors

\* ProcessorPipeline.__init__: the GcsProcessor is appended to config.processors.
PipelineProcessors(config_processors) == Append(config_processors, GcsProcessor)

reversed(s) == [i \in 1..Len(s) |-> s[Len(s) + 1 - i]]

\* Variant: postprocess walks the chain in list order too.
ProcessorOrder_NoReverse(func, n) == [i \in 1..n |-> i]

\* The order in which the steps of one file task visit self._processors.
ProcessorOrder(func, n) ==
    IF func = "_preprocess_file" THEN [i \in 1..n |-> i] ELSE reversed([i \in 1..n |-> i])

\* Variant: the blob name does not depend on the relative path.
Processor_preprocess_SharedBlob(proc, path, t, up, fault) ==
    IF proc.cls = "MacroProcessor"
    THEN [res |-> MacroProcessor_preprocess(proc.macros, path, t), up |-> up]
    ELSE IF fault
         THEN [res |-> StorageError, up |-> up]
         ELSE [res |-> Ok(t), up |-> [q \in DOMAIN up |-> Blob(t)]]

\* processor.preprocess(relative_path, text): the returned text (or the error)
\* and the blob store afterwards.  fault is a failure of the storage call.
Processor_preprocess(proc, path, t, up, fault) ==
    IF proc.cls = "MacroProcessor"
    THEN [res |-> MacroProcessor_preprocess(proc.macros, path, t), up |-> up]
    ELSE IF fault
         THEN [res |-> StorageError, up |-> up]
         ELSE [res |-> Ok(t), up |-> [up EXCEPT ![path] = Blob(t)]]

\* processor.postprocess(relative_path, text)
Processor_postprocess(proc, path, t, down, fault) ==
    IF proc.cls = "MacroProcessor"
    THEN MacroProcessor_postprocess(proc.macros, path, t)
    ELSE IF fault \/ ~down[path].exists
         THEN StorageError
         ELSE Ok(down[path].text)

----------------------------------------------------------------------------
(* pathlib and the classification of paths                                 *)

RECURSIVE PathName(_)
PathName(path) ==
    IF \E i \in 1..Len(path) : path[i] = "/"
    THEN PathName(Tail(path))
    ELSE path

LastDot(name) ==
    IF \E i \in 1..Len(name) : name[i] = "."
    THEN CHOOSE i \in 1..Len(name) :
            name[i] = "." /\ \A j \in (i + 1)..Len(name) : name[j] # "."
    ELSE 0

\* PurePath.suffix
PathSuffix(path) ==
    LET name == PathName(path)
        i == LastDot(name)
    IN  IF 1 < i /\ i < Len(name) THEN SubSeq(name, i, Len(name)) ELSE <<>>

LowerChar(c) ==
    CASE c = "Z" -> "z" [] c = "I" -> "i" [] c = "P" -> "p"
      [] c = "C" -> "c" [] c = "S" -> "s" [] c = "V" -> "v"
      [] OTHER -> c

lower(str) == [i \in 1..Len(str) |-> LowerChar(str[i])]

\* Variant: hidden files are not ignored.
is_ignored_NoHidden(tree, path) == tree[path].kind # "file"

is_ignored(tree, path) ==
    \/ tree[path].kind # "file"
    \/ IsPrefixAt(<<".">>, PathName(path), 1)

is_processable(tree, path) ==
    /\ ~is_ignored(tree, path)
    /\ lower(PathSuffix(path)) \notin
          { <<".", "z", "i", "p">>, <<".", "j", "s", "o", "n">>, <<".", "c", "s", "v">> }

\* What _process submits to the executor for a path yielded by rglob.
Submitted(tree, path) == ~is_ignored(tree, path)

\* processor_class.__name__ and processor_method.__name__ as path components
ClassDir(cls) ==
    IF cls = "GcsProcessor"
    THEN <<"G", "c", "s", "P", "r", "o", "c", "e", "s", "s", "o", "r">>
    ELSE <<"M", "a", "c", "r", "o", "P", "r", "o", "c", "e", "s", "s", "o", "r">>

MethodDir(func) ==
    IF func = "_preprocess_file"
    THEN <<"p", "r", "e", "p", "r", "o", "c", "e", "s", "s">>
    ELSE <<"p", "o", "s", "t", "p", "r", "o", "c", "e", "s", "s">>

\* The directory "i" of the input root, when the intermediate directory is
\* configured there.
IntermediateDir == <<"i">>

\* self._intermediate_path / processor_class.__name__ /
\* processor_method.__name__ / relative_path, relative to the input root.
intermediate_processor_path(cls, func, path) ==
    IntermediateDir \o <<"/">> \o ClassDir(cls) \o <<"/">> \o MethodDir(func) \o <<"/">> \o path

\* _write_intermediate_file: the intermediate files afterwards.
WriteIntermediate(files, where, cls, func, path, t) ==
    IF where = "None" THEN files
    ELSE [files EXCEPT ![<<cls, func, path>>] = [exists |-> TRUE, text |-> t]]

\* _write_intermediate_file seen from the input root: a file appears under it
\* when the intermediate directory lies inside.
WriteUnderInput(tree, where, cls, func, path, t) ==
    LET ip == intermediate_processor_path(cls, func, path)
    IN  IF where = "inside" /\ ip \in DOMAIN tree
        THEN [tree EXCEPT ![ip] = [kind |-> "file", text |-> t]]
        ELSE tree

----------------------------------------------------------------------------
(* Inputs of a run                                                         *)

MaxWorkers == 2

MaxSlowdown == 1

length_seconds == 600

SleepSeconds == 5

\* time.sleep(5) plus the poll take 5 seconds or a multiple of it.
SleepAdvance == { SleepSeconds, SleepSeconds * (1 + MaxSlowdown) }

P_a_sql == <<"a", ".", "s", "q", "l">>

P_b_sql == <<"b", ".", "s", "q", "l">>

P_gitkeep == <<".", "g", "i", "t", "k", "e", "e", "p">>

P_d == <<"d">>

P_d_c_sql == <<"d", "/", "c", ".", "s", "q", "l">>

P_x_csv == <<"x", ".", "c", "s", "v">>

P_y_ZIP == <<"y", ".", "Z", "I", "P">>

File(t) == [kind |-> "file", text |-> t]

Dir == [kind |-> "dir", text |-> <<>>]

T_foo == <<"$", "{", "f", "o", "o", "}">>

T_select_foo == <<"s", "e", "l", "e", "c", "t", " ">> \o T_foo \o <<";">>

T_select_1 == <<"s", "e", "l", "e", "c", "t", " ", "1", ";">>

GlobSql == <<"*", ".", "s", "q", "l">>

MacrosFoo == << <<GlobSql, << <<T_foo, <<"1">>>> >>>> >>

MacrosAtoDollar == << <<GlobAll, << << <<"a">>, <<"$">> >> >>>> >>

MacrosDollarToB == << <<GlobAll, << << <<"$">>, <<"b">> >> >>>> >>

MacrosSqlOnly == << <<GlobSql, << << <<"a">>, <<"$">> >> >>>> >>

TreeScenario == (P_a_sql :> File(T_select_foo))

TreeTwo == (P_a_sql :> File(<<"a">>)) @@ (P_b_sql :> File(<<"a", "$">>))

TreeIgnored ==
    (P_a_sql :> File(<<"a">>)) @@ (P_gitkeep :> File(<<"a">>))
    @@ (P_d :> Dir) @@ (P_d_c_sql :> File(<<"$", "a">>))

TreePassThrough ==
    (P_x_csv :> File(<<"a", "a">>)) @@ (P_y_ZIP :> File(<<"a">>))

\* config.processors of the runs studied
ChainNone == <<>>

ChainFoo == << MacroProcessor(MacrosFoo) >>

ChainTwoMacros == << MacroProcessor(MacrosAtoDollar), MacroProcessor(MacrosDollarToB) >>

ChainEmptyMacros == << MacroProcessor(<<>>) >>

ChainSqlOnly == << MacroProcessor(MacrosSqlOnly) >>

Scenarios ==
    { <<TreeScenario, ChainFoo>> }
    \cup ({ TreeTwo, TreeIgnored, TreePassThrough }
          \X { ChainNone, ChainTwoMacros, ChainEmptyMacros, ChainSqlOnly })

\* The translation service's output for an uploaded text.
JobModes == { "echo", "rewrite" }

JobTranslate(mode, t) == IF mode = "echo" THEN t ELSE t \o t

----------------------------------------------------------------------------
(* Initial states                                                          *)

NoResult == [err |-> FALSE, text |-> <<>>]

NoFuture == [st |-> "none", step |-> 0, text |-> <<>>, yielded |-> FALSE]

AbsentPath == [kind |-> "absent", entries |-> {}]

AbsentTmp == [exists |-> FALSE, upload |-> {}, download |-> {}]

CliIdle ==
    /\ subcommand = "none"
    /\ config_yaml = "valid"
    /\ credentials_ok = TRUE
    /\ macros_yaml = "none"
    /\ clean_up_key = "absent"
    /\ marshal = "ProcessorPipeline"
    /\ input_names = {}
    /\ output_path = AbsentPath
    /\ tmp_path = AbsentTmp
    /\ start_fs = <<AbsentPath, AbsentTmp>>
    /\ tpc = "idle"
    /\ raised = "none"
    /\ clean_up_tmp_files = TRUE
    /\ gcs_input = {}
    /\ job_submitted = FALSE

MacroIdle ==
    /\ macro_expansion_maps = <<>>
    /\ relative_path = <<>>
    /\ text = <<>>
    /\ expanded = NoResult
    /\ unexpanded = NoResult
    /\ mpc = "idle"

RunIdle ==
    /\ input_tree = <<>>
    /\ _processors = <<>>
    /\ max_workers = 1
    /\ _intermediate_path = "None"
    /\ upload_uri = <<>>
    /\ download_uri = <<>>
    /\ cpc = "idle"
    /\ process_func = "_preprocess_file"
    /\ visited = {}
    /\ queue = <<>>
    /\ futures = <<>>
    /\ uploaded = <<>>
    /\ downloaded = <<>>
    /\ output_files = <<>>
    /\ intermediate_files = <<>>
    /\ calls = <<>>
    /\ storage_calls = {}
    /\ workflow_state = "NONE"
    /\ clock = 0
    /\ processing_seconds = 0
    /\ job_status = "NONE"
    /\ job_state = "NotStarted"
    /\ job_requests = <<>>
    /\ postprocess_calls = 0
    /\ exit_code = -1

IntermediateKeys(tree) ==
    {"MacroProcessor", "GcsProcessor"} \X {"_preprocess_file", "_postprocess_file"} \X DOMAIN tree

\* The state when start_translation is entered: the pipeline is constructed
\* from the parsed configuration, nothing is staged, no job exists.
RunStart(tree, config_processors, intermediate_directory) ==
    /\ MacroIdle
    /\ CliIdle
    /\ input_tree = tree
    /\ _processors = PipelineProcessors(config_processors)
    /\ _intermediate_path = intermediate_directory
    /\ upload_uri = GcsUri(gcs_bucket, _upload_path)
    /\ download_uri = GcsUri(gcs_bucket, _download_path)
    /\ max_workers \in 1..MaxWorkers
    /\ cpc = "preprocess"
    /\ process_func = "_preprocess_file"
    /\ visited = {}
    /\ queue = <<>>
    /\ futures = [p \in DOMAIN tree |-> NoFuture]
    /\ uploaded = [p \in DOMAIN tree |-> NoBlob]
    /\ downloaded = [p \in DOMAIN tree |-> NoBlob]
    /\ output_files = [p \in DOMAIN tree |-> NoBlob]
    /\ intermediate_files = [k \in IntermediateKeys(tree) |-> NoBlob]
    /\ calls = [d \in {"_preprocess_file", "_postprocess_file"} |->
                    [p \in DOMAIN tree |-> <<>>]]
    /\ storage_calls = {}
    /\ workflow_state = "NONE"
    /\ clock = 0
    /\ processing_seconds = 0
    /\ job_status = "NONE"
    /\ job_state = "NotStarted"
    /\ job_requests = <<>>
    /\ postprocess_calls = 0
    /\ exit_code = -1

\* Runs with no intermediate directory configured.
Init == \E sc \in Scenarios : RunStart(sc[1], sc[2], "None")

----------------------------------------------------------------------------
(* ProcessorPipeline._process: the dispatch loop and the await loop        *)

AllPaths == DOMAIN input_tree

InProcess == cpc \in {"preprocess", "postprocess"}

\* One iteration of "for input_file_path in self._input_path.rglob('*')".
Dispatch(p) ==
    /\ InProcess
    /\ p \in AllPaths \ visited
    /\ visited' = visited \cup {p}
    /\ IF Submitted(input_tree, p)
       THEN /\ queue' = Append(queue, p)
            /\ futures' = [futures EXCEPT ![p] =
                              [st |-> "queued", step |-> 0, text |-> <<>>, yielded |-> FALSE]]
       ELSE UNCHANGED <<queue, futures>>
    /\ UNCHANGED <<configVars, cpc, process_func, storeVars, jobVars,
                   postprocess_calls, exit_code, macroVars, cliVars>>

Dispatched == { p \in AllPaths : futures[p].st # "none" }

\* One iteration of "for future in as_completed(futures): future.result()"
\* on a future that completed normally.
AwaitResult(p) ==
    /\ InProcess
    /\ visited = AllPaths
    /\ futures[p].st = "done"
    /\ ~futures[p].yielded
    /\ futures' = [futures EXCEPT ![p].yielded = TRUE]
    /\ UNCHANGED <<configVars, cpc, process_func, visited, queue, storeVars, jobVars,
                   postprocess_calls, exit_code, macroVars, cliVars>>

\* Variant: the failed future is consumed without calling result().
AwaitRaises_Swallow(p) ==
    /\ InProcess
    /\ visited = AllPaths
    /\ futures[p].st = "failed"
    /\ ~futures[p].yielded
    /\ futures' = [futures EXCEPT ![p].yielded = TRUE]
    /\ UNCHANGED <<configVars, cpc, process_func, visited, queue, storeVars, jobVars,
                   postprocess_calls, exit_code, macroVars, cliVars>>

\* Variant: the exception cancels the tasks that have not finished.
AwaitRaises_Cancel(p) ==
    /\ InProcess
    /\ visited = AllPaths
    /\ futures[p].st = "failed"
    /\ ~futures[p].yielded
    /\ futures' = [q \in AllPaths |->
                      IF q = p THEN [futures[q] EXCEPT !.yielded = TRUE]
                      ELSE IF futures[q].st \in {"queued", "running"}
                           THEN [futures[q] EXCEPT !.st = "cancelled"]
                           ELSE futures[q]]
    /\ queue' = <<>>
    /\ cpc' = IF cpc = "preprocess" THEN "preprocess_raised" ELSE "postprocess_raised"
    /\ exit_code' = 1
    /\ UNCHANGED <<configVars, process_func, visited, storeVars, jobVars,
                   postprocess_calls, macroVars, cliVars>>

\* future.result() re-raises the exception of a failed task; nothing in
\* start_translation or its callers catches it.
AwaitRaises(p) ==
    /\ InProcess
    /\ visited = AllPaths
    /\ futures[p].st = "failed"
    /\ ~futures[p].yielded
    /\ futures' = [futures EXCEPT ![p].yielded = TRUE]
    /\ cpc' = IF cpc = "preprocess" THEN "preprocess_raised" ELSE "postprocess_raised"
    /\ exit_code' = 1
    /\ UNCHANGED <<configVars, process_func, visited, queue, storeVars, jobVars,
                   postprocess_calls, macroVars, cliVars>>

AllYielded ==
    /\ visited = AllPaths
    /\ \A p \in Dispatched : futures[p].yielded

\* Variant: preprocess returns when the files are dispatched, without
\* awaiting the futures.
PreprocessReturns_NoAwait ==
    /\ cpc = "preprocess"
    /\ visited = AllPaths
    /\ cpc' = "create"
    /\ UNCHANGED <<configVars, poolVars, storeVars, jobVars,
                   postprocess_calls, exit_code, macroVars, cliVars>>

\* ProcessorPipeline.preprocess() returns.
PreprocessReturns ==
    /\ cpc = "preprocess"
    /\ AllYielded
    /\ cpc' = "create"
    /\ UNCHANGED <<configVars, poolVars, storeVars, jobVars,
                   postprocess_calls, exit_code, macroVars, cliVars>>

\* ProcessorPipeline.postprocess() returns and start_translation logs
\* "The job finished successfully!".
PostprocessReturns ==
    /\ cpc = "postprocess"
    /\ AllYielded
    /\ cpc' = "success"
    /\ exit_code' = 0
    /\ UNCHANGED <<configVars, poolVars, storeVars, jobVars,
                   postprocess_calls, macroVars, cliVars>>

----------------------------------------------------------------------------
(* The per-file tasks run by the executor's workers                        *)

Running == { p \in AllPaths : futures[p].st = "running" }

\* A free worker takes the next work item: _preprocess_file reads the input
\* file, _postprocess_file starts from the empty text.
TaskStart ==
    /\ queue # <<>>
    /\ Cardinality(Running) < max_workers
    /\ LET p == Head(queue)
       IN  futures' = [futures EXCEPT ![p] =
                [st |-> "running", step |-> 0,
                 text |-> IF process_func = "_preprocess_file"
                          THEN input_tree[p].text ELSE <<>>,
                 yielded |-> FALSE]]
    /\ queue' = Tail(queue)
    /\ UNCHANGED <<configVars, cpc, process_func, visited, storeVars, jobVars,
                   postprocess_calls, exit_code, macroVars, cliVars>>

ChainLen == Len(_processors)

\* One iteration of "for processor in self._processors" of _preprocess_file.
PreprocessStep(p, fault) ==
    /\ process_func = "_preprocess_file"
    /\ futures[p].st = "running"
    /\ futures[p].step < ChainLen
    /\ LET k == ProcessorOrder(process_func, ChainLen)[futures[p].step + 1]
           r == Processor_preprocess(_processors[k], p, futures[p].text, uploaded, fault)
       IN  /\ (fault => _processors[k].cls = "GcsProcessor")
           /\ uploaded' = r.up
           /\ storage_calls' =
                 IF _processors[k].cls = "GcsProcessor"
                 THEN storage_calls \cup {StorageCall("upload", upload_blob(p))}
                 ELSE storage_calls
           /\ calls' = [calls EXCEPT ![process_func][p] =
                           Append(@, [proc |-> k, inp |-> futures[p].text, out |-> r.res])]
           /\ intermediate_files' =
                 IF r.res.err THEN intermediate_files
                 ELSE WriteIntermediate(intermediate_files, _intermediate_path,
                                        _processors[k].cls, process_func, p, r.res.text)
           /\ input_tree' =
                 IF r.res.err THEN input_tree
                 ELSE WriteUnderInput(input_tree, _intermediate_path,
                                      _processors[k].cls, process_func, p, r.res.text)
           /\ futures' = [futures EXCEPT ![p] =
                 IF r.res.err
                 THEN [@ EXCEPT !.st = "failed"]
                 ELSE [@ EXCEPT !.step = @ + 1, !.text = r.res.text,
                                !.st = IF futures[p].step + 1 = ChainLen
                                       THEN "done" ELSE "running"]]
    /\ UNCHANGED <<_processors, max_workers, _intermediate_path, upload_uri, download_uri,
                   cpc, process_func, visited,
                   queue, downloaded, output_files, jobVars, postprocess_calls, exit_code,
                   macroVars, cliVars>>

\* One iteration of "for processor in reversed(self._processors)" of
\* _postprocess_file.
PostprocessStep(p, fault) ==
    /\ process_func = "_postprocess_file"
    /\ futures[p].st = "running"
    /\ futures[p].step < ChainLen
    /\ LET k == ProcessorOrder(process_func, ChainLen)[futures[p].step + 1]
           r == Processor_postprocess(_processors[k], p, futures[p].text, downloaded, fault)
       IN  /\ (fault => _processors[k].cls = "GcsProcessor")
           /\ calls' = [calls EXCEPT ![process_func][p] =
                           Append(@, [proc |-> k, inp |-> futures[p].text, out |-> r])]
           /\ storage_calls' =
                 IF _processors[k].cls = "GcsProcessor"
                 THEN storage_calls \cup {StorageCall("download", download_blob(p))}
                 ELSE storage_calls
           /\ intermediate_files' =
                 IF r.err THEN intermediate_files
                 ELSE WriteIntermediate(intermediate_files, _intermediate_path,
                                        _processors[k].cls, process_func, p, r.text)
           /\ input_tree' =
                 IF r.err THEN input_tree
                 ELSE WriteUnderInput(input_tree, _intermediate_path,
                                      _processors[k].cls, process_func, p, r.text)
           /\ futures' = [futures EXCEPT ![p] =
                 IF r.err
                 THEN [@ EXCEPT !.st = "failed"]
                 ELSE [@ EXCEPT !.step = @ + 1, !.text = r.text]]
    /\ UNCHANGED <<_processors, max_workers, _intermediate_path, upload_uri, download_uri,
                   cpc, process_func, visited,
                   queue, uploaded, downloaded, output_files, jobVars, postprocess_calls,
                   exit_code, macroVars, cliVars>>

\* The end of _postprocess_file: the text is written to the output path.
WriteOutput(p) ==
    /\ process_func = "_postprocess_file"
    /\ futures[p].st = "running"
    /\ futures[p].step = ChainLen
    /\ output_files' = [output_files EXCEPT ![p] = Blob(futures[p].text)]
    /\ futures' = [futures EXCEPT ![p].st = "done"]
    /\ UNCHANGED <<configVars, cpc, process_func, visited, queue, uploaded, downloaded,
                   intermediate_files, calls, storage_calls, jobVars, postprocess_calls,
                   exit_code, macroVars, cliVars>>

----------------------------------------------------------------------------
(* BatchSqlTranslator: job submission and the polling loop                 *)

_JOB_FINISHED_STATES == { "COMPLETED", "PAUSED" }

\* create_migration_workflow returns the name of the new workflow and
\* _wait_until_job_finished takes start_time.
CreateWorkflow ==
    /\ cpc = "create"
    /\ workflow_state' = "RUNNING"
    /\ job_requests' = Append(job_requests,
                               [gcs_input_path |-> upload_uri, gcs_output_path |-> download_uri])
    /\ job_state' = "Submitted"
    /\ clock' = 0
    /\ processing_seconds' = 0
    /\ cpc' = "wait"
    /\ UNCHANGED <<configVars, poolVars, storeVars, job_status,
                   postprocess_calls, exit_code, macroVars, cliVars>>

\* The create call fails: the exception leaves start_translation.
CreateRaises ==
    /\ cpc = "create"
    /\ cpc' = "create_raised"
    /\ exit_code' = 1
    /\ UNCHANGED <<configVars, poolVars, storeVars, jobVars,
                   postprocess_calls, macroVars, cliVars>>

\* Variant: the clock does not advance while the loop sleeps.
Sleep_ClockStopped(d) ==
    /\ cpc = "wait"
    /\ processing_seconds < length_seconds
    /\ clock' = clock
    /\ processing_seconds' = clock
    /\ cpc' = "poll"
    /\ UNCHANGED <<configVars, poolVars, storeVars, workflow_state, job_status, job_state,
                   job_requests, postprocess_calls, exit_code, macroVars, cliVars>>

\* "while processing_seconds < length_seconds: time.sleep(5);
\*  processing_seconds = int(time.time() - start_time)"
Sleep(d) ==
    /\ cpc = "wait"
    /\ processing_seconds < length_seconds
    /\ clock' = clock + d
    /\ processing_seconds' = clock + d
    /\ cpc' = "poll"
    /\ UNCHANGED <<configVars, poolVars, storeVars, workflow_state, job_status, job_state,
                   job_requests, postprocess_calls, exit_code, macroVars, cliVars>>

\* Variant: a status polled at or after the ceiling is not looked at.
Poll_DeadlineFirst ==
    /\ cpc = "poll"
    /\ job_status' = workflow_state
    /\ IF workflow_state \in _JOB_FINISHED_STATES /\ processing_seconds < length_seconds
       THEN /\ cpc' = "wait_returned"
            /\ job_state' = IF workflow_state = "COMPLETED" THEN "Completed" ELSE "Paused"
       ELSE /\ cpc' = "wait"
            /\ job_state' = "Running"
    /\ UNCHANGED <<configVars, poolVars, storeVars, workflow_state, clock, processing_seconds,
                   job_requests, postprocess_calls, exit_code, macroVars, cliVars>>

\* Variant: the loop does not return on a finished state.
Poll_NoReturn ==
    /\ cpc = "poll"
    /\ job_status' = workflow_state
    /\ cpc' = "wait"
    /\ job_state' = IF workflow_state = "COMPLETED" THEN "Completed"
                    ELSE IF workflow_state = "PAUSED" THEN "Paused" ELSE "Running"
    /\ UNCHANGED <<configVars, poolVars, storeVars, workflow_state, clock, processing_seconds,
                   job_requests, postprocess_calls, exit_code, macroVars, cliVars>>

\* get_migration_workflow returns; the loop returns on a finished state.
Poll ==
    /\ cpc = "poll"
    /\ job_status' = workflow_state
    /\ IF workflow_state \in _JOB_FINISHED_STATES
       THEN /\ cpc' = "wait_returned"
            /\ job_state' = IF workflow_state = "COMPLETED" THEN "Completed" ELSE "Paused"
       ELSE /\ cpc' = "wait"
            /\ job_state' = "Running"
    /\ UNCHANGED <<configVars, poolVars, storeVars, workflow_state, clock, processing_seconds,
                   job_requests, postprocess_calls, exit_code, macroVars, cliVars>>

\* get_migration_workflow raises: nothing in the loop catches it.
PollRaises ==
    /\ cpc = "poll"
    /\ cpc' = "poll_raised"
    /\ exit_code' = 1
    /\ UNCHANGED <<configVars, poolVars, storeVars, jobVars,
                   postprocess_calls, macroVars, cliVars>>

\* Variant: the loop falls through to the caller instead of exiting.
TimeoutExit_FallThrough ==
    /\ cpc = "wait"
    /\ processing_seconds >= length_seconds
    /\ cpc' = "wait_returned"
    /\ job_state' = "TimedOut"
    /\ UNCHANGED <<configVars, poolVars, storeVars, workflow_state, clock, processing_seconds,
                   job_status, job_requests, postprocess_calls, exit_code, macroVars, cliVars>>

\* Variant: the exit reports a failure status.
TimeoutExit_Status1 ==
    /\ cpc = "wait"
    /\ processing_seconds >= length_seconds
    /\ cpc' = "exited"
    /\ job_state' = "TimedOut"
    /\ exit_code' = 1
    /\ UNCHANGED <<configVars, poolVars, storeVars, workflow_state, clock, processing_seconds,
                   job_status, job_requests, postprocess_calls, macroVars, cliVars>>

\* The loop condition fails: the message is logged and sys.exit() is called.
TimeoutExit ==
    /\ cpc = "wait"
    /\ processing_seconds >= length_seconds
    /\ cpc' = "exited"
    /\ job_state' = "TimedOut"
    /\ exit_code' = 0
    /\ UNCHANGED <<configVars, poolVars, storeVars, workflow_state, clock, processing_seconds,
                   job_status, job_requests, postprocess_calls, macroVars, cliVars>>

\* start_translation calls self._processor_pipeline.postprocess(); the
\* locals of _wait_until_job_finished are gone.
PostprocessStart ==
    /\ cpc = "wait_returned"
    /\ cpc' = "postprocess"
    /\ process_func' = "_postprocess_file"
    /\ postprocess_calls' = postprocess_calls + 1
    /\ visited' = {}
    /\ queue' = <<>>
    /\ futures' = [p \in AllPaths |-> NoFuture]
    /\ clock' = 0
    /\ processing_seconds' = 0
    /\ UNCHANGED <<configVars, storeVars, workflow_state, job_status, job_state,
                   job_requests, exit_code, macroVars, cliVars>>

\* The translation service finishes the workflow, having written results
\* for some of the uploaded files.
JobFinish(final, S, mode) ==
    /\ workflow_state = "RUNNING"
    /\ final \in _JOB_FINISHED_STATES
    /\ S \subseteq { p \in AllPaths : uploaded[p].exists }
    /\ workflow_state' = final
    /\ downloaded' = [p \in AllPaths |->
                         IF p \in S THEN Blob(JobTranslate(mode, uploaded[p].text))
                         ELSE NoBlob]
    /\ UNCHANGED <<configVars, cpc, poolVars, uploaded, output_files, intermediate_files,
                   calls, storage_calls, clock,
                   processing_seconds, job_status, job_state, job_requests,
                   postprocess_calls, exit_code, macroVars, cliVars>>

Next ==
    \/ \E p \in AllPaths : Dispatch(p)
    \/ \E p \in AllPaths : AwaitResult(p)
    \/ \E p \in AllPaths : AwaitRaises(p)
    \/ PreprocessReturns
    \/ PostprocessReturns
    \/ TaskStart
    \/ \E p \in AllPaths, fault \in BOOLEAN : PreprocessStep(p, fault)
    \/ \E p \in AllPaths, fault \in BOOLEAN : PostprocessStep(p, fault)
    \/ \E p \in AllPaths : WriteOutput(p)
    \/ CreateWorkflow
    \/ CreateRaises
    \/ \E d \in SleepAdvance : Sleep(d)
    \/ Poll
    \/ PollRaises
    \/ TimeoutExit
    \/ PostprocessStart
    \/ \E final \in _JOB_FINISHED_STATES, S \in SUBSET AllPaths, mode \in JobModes :
          JobFinish(final, S, mode)

Spec == Init /\ [][Next]_vars

\* The run when time.sleep returns, get_migration_workflow answers and the
\* controller thread is scheduled: the steps of _wait_until_job_finished
\* are taken when they can be.
SpecPolling ==
    /\ Init
    /\ [][Next]_vars
    /\ WF_vars(\E d \in SleepAdvance : Sleep(d))
    /\ WF_vars(Poll)
    /\ WF_vars(TimeoutExit)

----------------------------------------------------------------------------
(* Runs with an intermediate directory configured                          *)

Absent == [kind |-> "absent", text |-> <<>>]

TreeOne == (P_a_sql :> File(<<"a">>))

\* The input root when the intermediate directory is its subdirectory "i":
\* the places where the intermediate files of a.sql will appear are under it.
TreeOneInside ==
    TreeOne @@ [ip \in { intermediate_processor_path("GcsProcessor", f, P_a_sql) :
                             f \in {"_preprocess_file", "_postprocess_file"} } |-> Absent]

InitIntermediate ==
    \/ \E chain \in { ChainNone, ChainTwoMacros } : RunStart(TreeTwo, chain, "outside")
    \/ RunStart(TreeOneInside, ChainNone, "inside")

SpecIntermediate == InitIntermediate /\ [][Next]_vars

----------------------------------------------------------------------------
(* The expand / unexpand study: one call of preprocess, then one call of   *)
(* postprocess on its result.                                              *)

MacroInit ==
    /\ macro_expansion_maps \in MacroMaps
    /\ relative_path \in Paths
    /\ text \in Texts
    /\ expanded = NoResult
    /\ unexpanded = NoResult
    /\ mpc = "init"
    /\ RunIdle
    /\ CliIdle

Expand ==
    /\ mpc = "init"
    /\ expanded' = MacroProcessor_preprocess(macro_expansion_maps, relative_path, text)
    /\ mpc' = "expanded"
    /\ UNCHANGED <<macro_expansion_maps, relative_path, text, unexpanded, runVars, cliVars>>

Unexpand ==
    /\ mpc = "expanded"
    /\ ~expanded.err
    /\ unexpanded' = MacroProcessor_postprocess(macro_expansion_maps, relative_path, expanded.text)
    /\ mpc' = "unexpanded"
    /\ UNCHANGED <<macro_expansion_maps, relative_path, text, expanded, runVars, cliVars>>

MacroNext == Expand \/ Unexpand

SpecMacro == MacroInit /\ [][MacroNext]_vars

----------------------------------------------------------------------------
(* The command line: argument validation, configuration, staging under    *)
(* .tmp and cleanup                                                        *)

RegularFile == [kind |-> "file", entries |-> {}]

\* A path that exists and is neither a directory nor a regular file.
Fifo == [kind |-> "fifo", entries |-> {}]

Directory(entries) == [kind |-> "dir", entries |-> entries]

\* "if not path.exists(): return; if force: if path.is_dir(): rmtree;
\*  if path.is_file(): unlink; return; raise ArgumentTypeError"
validated_nonexistent_path(path, force) ==
    IF path.kind = "absent" THEN [raised |-> "none", path |-> path]
    ELSE IF force
         THEN LET after_rmtree == IF path.kind = "dir" THEN AbsentPath ELSE path
                  after_unlink == IF after_rmtree.kind = "file" THEN AbsentPath
                                  ELSE after_rmtree
              IN  [raised |-> "none", path |-> after_unlink]
         ELSE [raised |-> "ArgumentTypeError", path |-> path]

\* The three asserts of __validate_config_yaml.
validate_config_yaml(yaml) == IF yaml = "valid" THEN "none" ELSE "AssertionError"

\* "if not os.path.exists(config.output_directory): os.makedirs(...)"
makedirs_output(path) == IF path.kind = "absent" THEN Directory({}) ELSE path

\* Variant: an absent key leaves the temporary files in place.
_clean_up_tmp_files_DefaultFalse(key) == key = "true"

\* clean_up_tmp_files is True when the key is absent, else the key's value.
_clean_up_tmp_files(key) == IF key = "absent" THEN TRUE ELSE key = "true"

InputNames == { "a.sql", "b.sql" }

OutputPaths == { AbsentPath, RegularFile, Fifo, Directory({}), Directory({"old.sql"}) }

\* .tmp is absent, or left over from a run that did not clean up.
TmpPaths == { AbsentTmp, [exists |-> TRUE, upload |-> {"old.sql"}, download |-> {"old.sql"}] }

\* The command is started: nothing is parsed yet.
CliInit ==
    /\ MacroIdle
    /\ RunIdle
    /\ subcommand \in { "init", "translate" }
    /\ output_path \in OutputPaths
    /\ tmp_path \in TmpPaths
    /\ start_fs = <<output_path, tmp_path>>
    /\ IF subcommand = "translate"
       THEN /\ config_yaml \in { "valid", "no_translation_config", "no_translation_type",
                                 "unsupported_type" }
            /\ credentials_ok \in BOOLEAN
            /\ macros_yaml \in { "none", "valid", "invalid" }
            /\ clean_up_key \in { "absent", "true", "false", "invalid" }
            /\ marshal \in { "ProcessorPipeline", "FileProcessor" }
            /\ input_names \in SUBSET InputNames
       ELSE /\ config_yaml = "valid"
            /\ credentials_ok = TRUE
            /\ macros_yaml = "none"
            /\ clean_up_key = "absent"
            /\ marshal = "ProcessorPipeline"
            /\ input_names = {}
    /\ tpc = "args"
    /\ raised = "none"
    /\ clean_up_tmp_files = TRUE
    /\ gcs_input = {}
    /\ job_submitted = FALSE

\* parser.parse_args(): the type of "directory" (init) is
\* validated_nonexistent_path, that of --output (translate) is
\* partial(validated_nonexistent_path, force=True); an ArgumentTypeError
\* ends the command.
ParseArgs ==
    /\ tpc = "args"
    /\ LET r == validated_nonexistent_path(output_path, subcommand = "translate")
       IN  /\ output_path' = r.path
           /\ raised' = r.raised
           /\ tpc' = IF r.raised # "none" THEN "exited"
                     ELSE IF subcommand = "init" THEN "init" ELSE "config"
    /\ UNCHANGED <<inputVars, tmp_path, clean_up_tmp_files, gcs_input, job_submitted,
                   macroVars, runVars>>

\* init(args): shutil.copytree(example, project_directory) and the
\* processors directory.
InitProject ==
    /\ tpc = "init"
    /\ IF output_path.kind = "absent"
       THEN /\ output_path' = Directory({"config.yaml", "processors"})
            /\ tpc' = "done"
            /\ UNCHANGED raised
       ELSE /\ raised' = "FileExistsError"
            /\ tpc' = "exited"
            /\ UNCHANGED output_path
    /\ UNCHANGED <<inputVars, tmp_path, clean_up_tmp_files, gcs_input, job_submitted,
                   macroVars, runVars>>

\* ConfigParser.parse_config: the file is read and validated, then the
\* output directory is created when it does not exist.
ParseConfig ==
    /\ tpc = "config"
    /\ LET e == validate_config_yaml(config_yaml)
       IN  IF e # "none"
           THEN /\ raised' = e
                /\ tpc' = "exited"
                /\ UNCHANGED output_path
           ELSE /\ output_path' = makedirs_output(output_path)
                /\ tpc' = "auth"
                /\ UNCHANGED raised
    /\ UNCHANGED <<inputVars, tmp_path, clean_up_tmp_files, gcs_input, job_submitted,
                   macroVars, runVars>>

\* validate_gcloud_auth_settings(config.project_number)
ValidateAuth ==
    /\ tpc = "auth"
    /\ IF credentials_ok
       THEN tpc' = "macros" /\ UNCHANGED raised
       ELSE tpc' = "exited" /\ raised' = "CredentialError"
    /\ UNCHANGED <<inputVars, output_path, tmp_path, clean_up_tmp_files, gcs_input,
                   job_submitted, macroVars, runVars>>

\* "if args.macros: MacroProcessor(...)": _parse_macros_config_file loads the
\* file through MacrosSchema and re-raises its ValidationError.
ParseMacros ==
    /\ tpc = "macros"
    /\ IF macros_yaml = "invalid"
       THEN tpc' = "exited" /\ raised' = "ValidationError"
       ELSE tpc' = "pipeline_config" /\ UNCHANGED raised
    /\ UNCHANGED <<inputVars, output_path, tmp_path, clean_up_tmp_files, gcs_input,
                   job_submitted, macroVars, runVars>>

\* ProcessorPipelineConfigParser.parse: clean_up_tmp_files must be a boolean
\* when present.
ParsePipelineConfig ==
    /\ tpc = "pipeline_config"
    /\ IF clean_up_key = "invalid"
       THEN /\ tpc' = "exited"
            /\ raised' = "AssertionError"
            /\ UNCHANGED clean_up_tmp_files
       ELSE /\ tpc' = "preprocess"
            /\ clean_up_tmp_files' = _clean_up_tmp_files(clean_up_key)
            /\ UNCHANGED raised
    /\ UNCHANGED <<inputVars, output_path, tmp_path, gcs_input, job_submitted,
                   macroVars, runVars>>

\* preprocess() of the class marshalling the files: the files S are staged
\* under .tmp/upload; fails is a processor raising on a further file.
\* FileProcessor.preprocess begins with shutil.rmtree(self._tmp_path).
Pipeline_preprocess(m, tmp, S, fails) ==
    IF m = "FileProcessor" /\ ~tmp.exists
    THEN [raised |-> "FileNotFoundError", tmp |-> tmp]
    ELSE [raised |-> IF fails THEN "ProcessorError" ELSE "none",
          tmp |-> IF m = "FileProcessor"
                  THEN [exists |-> TRUE, upload |-> S, download |-> {}]
                  ELSE IF S = {} THEN tmp
                       ELSE [exists |-> TRUE, upload |-> tmp.upload \cup S,
                             download |-> tmp.download]]

PipelinePreprocess(S, fails) ==
    /\ tpc = "preprocess"
    /\ S \subseteq input_names
    /\ fails <=> S # input_names
    /\ LET r == Pipeline_preprocess(marshal, tmp_path, S, fails)
       IN  /\ tmp_path' = r.tmp
           /\ raised' = r.raised
           /\ tpc' = IF r.raised = "none" THEN "upload" ELSE "exited"
    /\ UNCHANGED <<inputVars, output_path, clean_up_tmp_files, gcs_input, job_submitted,
                   macroVars, runVars>>

\* GcsHelper.upload: "assert isdir(self._local_upload_path)", then every file
\* under it is uploaded.
GcsUpload ==
    /\ tpc = "upload"
    /\ IF tmp_path.exists
       THEN /\ gcs_input' = tmp_path.upload
            /\ tpc' = "job"
            /\ UNCHANGED raised
       ELSE /\ raised' = "AssertionError"
            /\ tpc' = "exited"
            /\ UNCHANGED gcs_input
    /\ UNCHANGED <<inputVars, output_path, tmp_path, clean_up_tmp_files, job_submitted,
                   macroVars, runVars>>

\* The translation job is created and runs to its end.
SubmitJob ==
    /\ tpc = "job"
    /\ job_submitted' = TRUE
    /\ tpc' = "download"
    /\ UNCHANGED <<inputVars, output_path, tmp_path, raised, clean_up_tmp_files, gcs_input,
                   macroVars, runVars>>

\* GcsHelper.download: the job's results S are written under .tmp/download,
\* their directories made as needed.
GcsDownload(S) ==
    /\ tpc = "download"
    /\ S \subseteq gcs_input
    /\ tmp_path' = IF S = {} THEN tmp_path
                   ELSE [tmp_path EXCEPT !.exists = TRUE, !.download = @ \cup S]
    /\ tpc' = "postprocess"
    /\ UNCHANGED <<inputVars, output_path, raised, clean_up_tmp_files, gcs_input,
                   job_submitted, macroVars, runVars>>

\* postprocess() of the class marshalling the files: the downloads W are
\* written to the output directory (fails is a processor raising on a
\* further one), then .tmp is removed when clean_up_tmp_files is set:
\* ProcessorPipeline calls shutil.rmtree unguarded, FileProcessor only when
\* .tmp exists.
Pipeline_postprocess(m, out, tmp, clean_up, W, fails) ==
    LET names == IF tmp.exists THEN tmp.download ELSE {}
        writable == IF m = "ProcessorPipeline" THEN out.kind \in {"absent", "dir"}
                    ELSE out.kind = "dir"
        written == IF W = {} THEN out ELSE Directory(out.entries \cup W)
    IN  IF names # {} /\ ~writable
        THEN [raised |-> IF m = "ProcessorPipeline" THEN "NotADirectoryError"
                         ELSE "FileNotFoundError",
              output |-> out, tmp |-> tmp]
        ELSE IF fails
             THEN [raised |-> "ProcessorError", output |-> written, tmp |-> tmp]
             ELSE IF clean_up /\ tmp.exists
                  THEN [raised |-> "none", output |-> written, tmp |-> AbsentTmp]
                  ELSE IF clean_up /\ m = "ProcessorPipeline"
                       THEN [raised |-> "FileNotFoundError", output |-> written, tmp |-> tmp]
                       ELSE [raised |-> "none", output |-> written, tmp |-> tmp]

PipelinePostprocess(W, fails) ==
    /\ tpc = "postprocess"
    /\ W \subseteq (IF tmp_path.exists THEN tmp_path.download ELSE {})
    /\ fails <=> W # (IF tmp_path.exists THEN tmp_path.download ELSE {})
    /\ LET r == Pipeline_postprocess(marshal, output_path, tmp_path, clean_up_tmp_files,
                                     W, fails)
       IN  /\ output_path' = r.output
           /\ tmp_path' = r.tmp
           /\ raised' = r.raised
           /\ tpc' = IF r.raised = "none" THEN "done" ELSE "exited"
    /\ UNCHANGED <<inputVars, clean_up_tmp_files, gcs_input, job_submitted,
                   macroVars, runVars>>

StagedNames == InputNames \cup {"old.sql"}

CliNext ==
    \/ ParseArgs
    \/ InitProject
    \/ ParseConfig
    \/ ValidateAuth
    \/ ParseMacros
    \/ ParsePipelineConfig
    \/ \E S \in SUBSET InputNames, fails \in BOOLEAN : PipelinePreprocess(S, fails)
    \/ GcsUpload
    \/ SubmitJob
    \/ \E S \in SUBSET StagedNames : GcsDownload(S)
    \/ \E W \in SUBSET StagedNames, fails \in BOOLEAN : PipelinePostprocess(W, fails)

SpecCli == CliInit /\ [][CliNext]_vars

----------------------------------------------------------------------------
(* Properties of MacroProcessor (checked under SpecMacro)                  *)

\* The (token, replacement) items declared under the glob patterns that
\* match the path.
DeclaredItems(maps, path) ==
    UNION { { maps[g][2][i] : i \in 1..Len(maps[g][2]) } :
              g \in { h \in 1..Len(maps) : fnmatch(path, maps[h][1]) } }

DeclaredTokens(maps, path) == { it[1] : it \in DeclaredItems(maps, path) }

\* t is a concatenation of tokens of toks.
RECURSIVE BuiltFrom(_, _)
BuiltFrom(t, toks) ==
    \/ t = <<>>
    \/ \E k \in toks : /\ k # <<>>
                       /\ IsPrefixAt(k, t, 1)
                       /\ BuiltFrom(SubSeq(t, Len(k) + 1, Len(t)), toks)

NoSharedReplacementPerGlob(maps) ==
    \A g \in 1..Len(maps) : \A i, j \in 1..Len(maps[g][2]) :
        i # j => maps[g][2][i][2] # maps[g][2][j][2]

ProperPrefix(a, b) == Len(a) < Len(b) /\ IsPrefixAt(a, b, 1)

\* Over all matching patterns together: some token is declared, distinct
\* tokens have distinct replacements, no replacement is empty, and neither
\* the tokens nor the replacements contain one that is a proper prefix of
\* another.
UniquelyDecodable(maps, path) ==
    LET items == DeclaredItems(maps, path)
    IN  /\ items # {}
        /\ \A x, y \in items :
              /\ x[1] # y[1] => x[2] # y[2]
              /\ x[2] # <<>>
              /\ ~ProperPrefix(x[2], y[2])
              /\ ~ProperPrefix(x[1], y[1])

RoundTripPremise ==
    /\ BuiltFrom(text, DeclaredTokens(macro_expansion_maps, relative_path))
    /\ NoSharedReplacementPerGlob(macro_expansion_maps)

----------------------------------------------------------------------------
(* Properties of a run (checked under Spec)                                *)

Funcs == {"_preprocess_file", "_postprocess_file"}

UserProcessors == SubSeq(_processors, 1, Len(_processors) - 1)

\* C2: per file and direction the processors are called in chain order
\* (preprocess) or reverse chain order (postprocess), each call receiving
\* the text the previous call returned; a finished task has called every
\* processor exactly once.
C2_ChainOrdering ==
    \A f \in Funcs : \A p \in AllPaths :
        LET log == calls[f][p]
            n == Len(_processors)
        IN  /\ Len(log) <= n
            /\ \A i \in 1..Len(log) :
                  /\ log[i].proc = IF f = "_preprocess_file" THEN i ELSE n + 1 - i
                  /\ log[i].inp = IF i = 1
                                  THEN (IF f = "_preprocess_file"
                                        THEN input_tree[p].text ELSE <<>>)
                                  ELSE log[i - 1].out.text
                  /\ i < Len(log) => ~log[i].out.err
            /\ (process_func = f /\ futures[p].st = "done") => Len(log) = n

\* A file whose postprocess went through a chain of three processors.
C2_Witness ==
    \E p \in AllPaths :
        /\ Len(_processors) = 3
        /\ process_func = "_postprocess_file"
        /\ futures[p].st = "done"
        /\ Len(calls["_postprocess_file"][p]) = 3
        /\ Len(calls["_preprocess_file"][p]) = 3
        /\ calls["_postprocess_file"][p][1].proc = 3
        /\ calls["_postprocess_file"][p][3].out.text # calls["_postprocess_file"][p][1].out.text

\* Pn.pre(...P1.pre(t)) over the user processors.
RECURSIVE ChainPre(_, _, _)
ChainPre(procs, path, r) ==
    IF procs = <<>> \/ r.err THEN r
    ELSE ChainPre(Tail(procs), path, MacroProcessor_preprocess(Head(procs).macros, path, r.text))

\* P1.post(...Pn.post(t)) over the user processors.
RECURSIVE ChainPost(_, _, _)
ChainPost(procs, path, r) ==
    IF procs = <<>> \/ r.err THEN r
    ELSE ChainPost(SubSeq(procs, 1, Len(procs) - 1), path,
                   MacroProcessor_postprocess(procs[Len(procs)].macros, path, r.text))

PreprocessReturned ==
    cpc \in {"create", "create_raised", "wait", "poll", "poll_raised", "wait_returned",
             "exited", "postprocess", "postprocess_raised", "success"}

\* C3: the GcsProcessor is last; a text stored under the upload root is the
\* composition of the user processors' preprocess on the input text, and
\* once preprocess has returned every submitted file is stored; an output
\* file is the composition of the user processors' postprocess, in reverse,
\* on the text downloaded for that path, and on success every submitted file
\* has its output.  With macros {'*.sql': {'${foo}': '1'}}, 'select ${foo};'
\* is uploaded as 'select 1;' and comes back as 'select ${foo};'.
C3_DataFlow ==
    /\ _processors[Len(_processors)] = GcsProcessor
    /\ \A i \in 1..(Len(_processors) - 1) : _processors[i].cls # "GcsProcessor"
    /\ \A p \in AllPaths :
          /\ uploaded[p].exists =>
                uploaded[p] = Blob(ChainPre(UserProcessors, p, Ok(input_tree[p].text)).text)
          /\ (PreprocessReturned /\ input_tree[p].kind = "file"
                /\ PathName(p)[1] # ".") => uploaded[p].exists
          /\ output_files[p].exists =>
                /\ downloaded[p].exists
                /\ output_files[p] = Blob(ChainPost(UserProcessors, p, Ok(downloaded[p].text)).text)
          /\ (cpc = "success" /\ input_tree[p].kind = "file"
                /\ PathName(p)[1] # ".") => output_files[p].exists
    /\ (input_tree = TreeScenario /\ _processors = <<MacroProcessor(MacrosFoo), GcsProcessor>>) =>
          /\ uploaded[P_a_sql].exists => uploaded[P_a_sql].text = T_select_1
          /\ (output_files[P_a_sql].exists /\ downloaded[P_a_sql].text = T_select_1)
                => output_files[P_a_sql].text = T_select_foo

\* The scenario run to its end with the job echoing the uploaded text.
C3_Witness ==
    /\ cpc = "success"
    /\ input_tree = TreeScenario
    /\ uploaded[P_a_sql] = Blob(T_select_1)
    /\ downloaded[P_a_sql] = Blob(T_select_1)
    /\ output_files[P_a_sql] = Blob(T_select_foo)

PassThroughSuffixes ==
    { <<".", "z", "i", "p">>, <<".", "j", "s", "o", "n">>, <<".", "c", "s", "v">> }

IsPassThroughFile(p) ==
    /\ input_tree[p].kind = "file"
    /\ PathName(p)[1] # "."
    /\ lower(PathSuffix(p)) \in PassThroughSuffixes

\* C4: on a regular, non-hidden .zip, .json or .csv file no processor's
\* preprocess or postprocess is ever invoked, and on success the output
\* file at its relative path is identical to the input.
C4_PassThrough ==
    \A p \in AllPaths : IsPassThroughFile(p) =>
        /\ calls["_preprocess_file"][p] = <<>>
        /\ calls["_postprocess_file"][p] = <<>>
        /\ cpc = "success" => output_files[p] = Blob(input_tree[p].text)

IsIgnoredPath(p) ==
    \/ input_tree[p].kind # "file"
    \/ PathName(p)[1] = "."

\* C5: a path that is not a regular file, or whose name begins with '.', is
\* never dispatched to a processor, never uploaded and never written to the
\* output root, in preprocess and in postprocess.
C5_IgnoredFiles ==
    \A p \in AllPaths : IsIgnoredPath(p) =>
        /\ futures[p].st = "none"
        /\ \A i \in 1..Len(queue) : queue[i] # p
        /\ calls["_preprocess_file"][p] = <<>>
        /\ calls["_postprocess_file"][p] = <<>>
        /\ ~uploaded[p].exists
        /\ ~output_files[p].exists

\* A successful run over a tree with a hidden file and a directory.
C5_Witness ==
    /\ cpc = "success"
    /\ input_tree = TreeIgnored
    /\ output_files[P_a_sql].exists
    /\ output_files[P_d_c_sql].exists
    /\ ~output_files[P_gitkeep].exists
    /\ ~output_files[P_d].exists

\* The trace of processing one file alone: the calls of the chain on the
\* file's own text, up to the first error.
RECURSIVE SoloTrace(_, _, _, _)
SoloTrace(f, p, k, t) ==
    IF k > Len(_processors) THEN <<>>
    ELSE LET idx == IF f = "_preprocess_file" THEN k ELSE Len(_processors) + 1 - k
             proc == _processors[idx]
             r == IF proc.cls = "GcsProcessor"
                  THEN (IF f = "_preprocess_file" THEN Ok(t)
                        ELSE IF downloaded[p].exists THEN Ok(downloaded[p].text) ELSE StorageError)
                  ELSE IF f = "_preprocess_file"
                       THEN MacroProcessor_preprocess(proc.macros, p, t)
                       ELSE MacroProcessor_postprocess(proc.macros, p, t)
         IN  <<[proc |-> idx, inp |-> t, out |-> r]>> \o
             (IF r.err THEN <<>> ELSE SoloTrace(f, p, k + 1, r.text))

SoloStart(f, p) == IF f = "_preprocess_file" THEN input_tree[p].text ELSE <<>>

SoloFinal(f, p) ==
    LET tr == SoloTrace(f, p, 1, SoloStart(f, p))
    IN  IF tr = <<>> THEN Ok(SoloStart(f, p)) ELSE tr[Len(tr)].out

\* A storage failure cuts a trace short; apart from that the calls made for
\* a file are a prefix of the file's solo trace.
IsSoloPrefix(log, tr) ==
    /\ Len(log) <= Len(tr)
    /\ \A i \in 1..Len(log) :
          \/ log[i] = tr[i]
          \/ /\ i = Len(log)
             /\ _processors[log[i].proc].cls = "GcsProcessor"
             /\ log[i] = [tr[i] EXCEPT !.out = StorageError]

\* C6: under every pool size and interleaving each file has at most one
\* task, whose calls are those of processing the file alone, and the blob
\* uploaded and the output written under a path are what processing that
\* file alone produces, never another file's text.
C6_ConcurrencySafety ==
    \A p \in AllPaths :
        /\ \A f \in Funcs :
              IsSoloPrefix(calls[f][p], SoloTrace(f, p, 1, SoloStart(f, p)))
        /\ Cardinality({ i \in 1..Len(queue) : queue[i] = p }) <= 1
        /\ (futures[p].st \in {"running", "done", "failed"})
              => \A i \in 1..Len(queue) : queue[i] # p
        /\ uploaded[p].exists =>
              /\ ~SoloFinal("_preprocess_file", p).err
              /\ uploaded[p].text = SoloFinal("_preprocess_file", p).text
        /\ output_files[p].exists =>
              /\ ~SoloFinal("_postprocess_file", p).err
              /\ output_files[p].text = SoloFinal("_postprocess_file", p).text

\* Two postprocess tasks in flight at once, both past their download, on
\* files whose uploaded and downloaded texts differ.
C6_Witness ==
    /\ max_workers = 2
    /\ process_func = "_postprocess_file"
    /\ Cardinality(Running) = 2
    /\ \E p, q \in Running :
          /\ p # q
          /\ futures[p].step >= 1
          /\ futures[q].step >= 1
          /\ futures[p].text # futures[q].text
          /\ uploaded[p].text # uploaded[q].text

SubmittedPaths == { p \in AllPaths : ~IsIgnoredPath(p) }

\* C7: preprocess() and postprocess() return normally only if every
\* dispatched task completed without raising; with a failed task the call
\* never returns normally.
C7_BatchSuccess ==
    /\ (cpc \in {"create", "create_raised", "wait", "poll", "poll_raised",
                 "wait_returned", "exited"})
          => /\ process_func = "_preprocess_file"
             /\ \A p \in SubmittedPaths : futures[p].st = "done"
    /\ cpc = "success"
          => /\ process_func = "_postprocess_file"
             /\ \A p \in SubmittedPaths : futures[p].st = "done"
    /\ (cpc = "preprocess_raised" \/ cpc = "postprocess_raised")
          => \E p \in AllPaths : futures[p].st = "failed"

\* A batch that raised although another of its tasks completed.
C7_Witness ==
    /\ cpc = "postprocess_raised"
    /\ \E p, q \in AllPaths : futures[p].st = "failed" /\ futures[q].st = "done"

JobMoves ==
    { <<"NotStarted", "Submitted">>, <<"Submitted", "Running">>, <<"Running", "Running">>,
      <<"Submitted", "Completed">>, <<"Submitted", "Paused">>, <<"Submitted", "TimedOut">>,
      <<"Running", "Completed">>, <<"Running", "Paused">>, <<"Running", "TimedOut">> }

JobTerminal == { "Completed", "Paused", "TimedOut" }

PollReturned == cpc = "poll" /\ cpc' \in {"wait", "wait_returned"}

\* C8: the job state moves only along NotStarted -> Submitted -> Running*
\* -> Completed | Paused | TimedOut; a poll happens only in Submitted or
\* Running, a poll returning a non-terminal status leaves Running, and in a
\* terminal state there is no further poll, sleep or state change.
C8_JobStateMachine ==
    [][ /\ job_state' # job_state => <<job_state, job_state'>> \in JobMoves
        /\ PollReturned =>
              /\ job_state \in {"Submitted", "Running"}
              /\ job_status' \notin _JOB_FINISHED_STATES => job_state' = "Running"
              /\ job_status' = "COMPLETED" => job_state' = "Completed"
              /\ job_status' = "PAUSED" => job_state' = "Paused"
        /\ job_state \in JobTerminal =>
              /\ job_state' = job_state
              /\ cpc' \notin {"poll", "wait"}
              /\ job_status' = job_status
        /\ job_state = "NotStarted" => cpc' \notin {"poll", "wait"} \/ job_state' = "Submitted"
      ]_vars

\* The job was seen running at least once and then seen paused.
C8_Witness ==
    /\ job_state = "Paused"
    /\ job_status = "PAUSED"
    /\ processing_seconds >= 2 * SleepSeconds
    /\ cpc = "wait_returned"

\* C9: postprocess is invoked at most once, only after a poll returned
\* COMPLETED or PAUSED, it is invoked whenever the wait returned and the
\* run went on, and success is reported only after it returned.
C9_PostprocessAfterFinish ==
    /\ postprocess_calls <= 1
    /\ postprocess_calls = 1 <=> cpc \in {"postprocess", "postprocess_raised", "success"}
    /\ process_func = "_postprocess_file" <=> postprocess_calls = 1
    /\ postprocess_calls = 1 => job_status \in _JOB_FINISHED_STATES
    /\ job_status \in _JOB_FINISHED_STATES
          => cpc \in {"wait_returned", "postprocess", "postprocess_raised", "success"}
    /\ cpc = "success" =>
          /\ postprocess_calls = 1
          /\ AllYielded
          /\ \A p \in AllPaths : futures[p].st \in {"none", "done"}

\* Success reported after a paused job was postprocessed.
C9_Witness ==
    /\ cpc = "success"
    /\ job_status = "PAUSED"
    /\ postprocess_calls = 1
    /\ \E p \in AllPaths : output_files[p].exists

\* C10: when the wait reaches the ceiling and no poll has returned
\* COMPLETED or PAUSED the controller exits with status 0 without raising,
\* postprocess is never run, no output file is written and success is not
\* reported.
C10_Timeout ==
    /\ [](cpc = "exited" =>
            /\ exit_code = 0
            /\ processing_seconds >= length_seconds
            /\ job_status \notin _JOB_FINISHED_STATES
            /\ postprocess_calls = 0
            /\ process_func = "_preprocess_file"
            /\ \A p \in AllPaths : ~output_files[p].exists)
    /\ [][ /\ (cpc = "wait" /\ processing_seconds >= length_seconds)
                 => cpc' \in {"wait", "exited"}
           /\ cpc = "exited" => cpc' = "exited" ]_vars

\* The wait ran past the ceiling while the job was still running.
C10_Witness ==
    /\ cpc = "exited"
    /\ processing_seconds > length_seconds
    /\ workflow_state = "RUNNING"
    /\ exit_code = 0

\* C11: a status poll that fails does not abort the run: from a poll the
\* loop goes on to its next iteration or returns on a terminal status, and
\* the process has not ended with an error.
C11_PollErrorsRetried ==
    [][ cpc = "poll" => /\ cpc' \in {"poll", "wait", "wait_returned"}
                        /\ exit_code' = exit_code ]_vars

----------------------------------------------------------------------------
(* Further properties of MacroProcessor (checked under SpecMacro)          *)

NoGlobMatches(maps, path) ==
    \A g \in 1..Len(maps) : ~fnmatch(path, maps[g][1])

\* C12: when no glob pattern of the macro map matches the path (the empty
\* map included), preprocess and postprocess return their input text
\* unchanged and raise nothing.
C12_NoMatchingGlob ==
    NoGlobMatches(macro_expansion_maps, relative_path) =>
        /\ mpc \in {"expanded", "unexpanded"} => expanded = Ok(text)
        /\ mpc = "unexpanded" => unexpanded = Ok(expanded.text)

Drop(t, n) == SubSeq(t, n + 1, Len(t))

Occurs(k, t) == \E i \in 1..(Len(t) - Len(k) + 1) : IsPrefixAt(k, t, i)

\* out is t with some occurrences of tokens of items replaced by the
\* replacement declared for them, every other character copied.
RECURSIVE ScopedRewrite(_, _, _)
ScopedRewrite(t, out, items) ==
    \/ t = <<>> /\ out = <<>>
    \/ /\ t # <<>>
       /\ out # <<>>
       /\ Head(t) = Head(out)
       /\ ScopedRewrite(Tail(t), Tail(out), items)
    \/ \E it \in items :
          /\ it[1] # <<>> \/ it[2] # <<>>
          /\ IsPrefixAt(it[1], t, 1)
          /\ IsPrefixAt(it[2], out, 1)
          /\ ScopedRewrite(Drop(t, Len(it[1])), Drop(out, Len(it[2])), items)

SwappedItems(items) == { <<it[2], it[1]>> : it \in items }

\* C13: the text preprocess returns differs from its input only where a
\* token declared under a glob pattern matching the path was replaced by a
\* replacement declared for it there, and likewise postprocess with the
\* swapped items; a token declared only under a non-matching pattern is
\* copied unchanged.
C13_GlobScoping ==
    LET items == DeclaredItems(macro_expansion_maps, relative_path)
    IN  /\ (mpc \in {"expanded", "unexpanded"} /\ ~expanded.err)
              => ScopedRewrite(text, expanded.text, items)
        /\ (mpc = "unexpanded" /\ ~unexpanded.err)
              => ScopedRewrite(expanded.text, unexpanded.text, SwappedItems(items))

\* A call that substituted a token of a matching pattern and kept the token
\* of a non-matching pattern that occurs in the text.
C13_Witness ==
    /\ mpc = "unexpanded"
    /\ ~expanded.err
    /\ ~unexpanded.err
    /\ expanded.text # text
    /\ \E g \in 1..Len(macro_expansion_maps) :
          /\ ~fnmatch(relative_path, macro_expansion_maps[g][1])
          /\ \E i \in 1..Len(macro_expansion_maps[g][2]) :
                LET k == macro_expansion_maps[g][2][i][1]
                IN  /\ k # <<>>
                    /\ macro_expansion_maps[g][2][i][2] # k
                    /\ k \notin DeclaredTokens(macro_expansion_maps, relative_path)
                    /\ Occurs(k, text)
                    /\ Occurs(k, expanded.text)

\* The replacement that the earliest-declared matching pattern gives token k.
FirstDeclared(maps, path, k) ==
    LET G == { g \in 1..Len(maps) : fnmatch(path, maps[g][1]) /\ DictHas(maps[g][2], k) }
    IN  DictGet(maps[Min(G)][2], k)

\* C14: the merged mapping built for a call maps every token declared under
\* a matching pattern to the replacement of the earliest-declared matching
\* pattern that declares it.
C14_FirstMatchWins ==
    mpc \in {"expanded", "unexpanded"} =>
        LET merged == _get_all_regex_pattern_mapping(macro_expansion_maps, relative_path, FALSE)
        IN  \A k \in DeclaredTokens(macro_expansion_maps, relative_path) :
                /\ DictHas(merged, escape(k))
                /\ DictGet(merged, escape(k))
                      = FirstDeclared(macro_expansion_maps, relative_path, k)

Max(S) == CHOOSE x \in S : \A y \in S : y <= x

\* C15: the reversed map has one entry per glob pattern, in the same order;
\* the keys of the entry of g are exactly the replacement values of g, each
\* once, and each is sent to the last token, in insertion order, that g maps
\* to it: nothing of another glob pattern appears in the entry of g.
C15_ReversedMap ==
    LET rev == _get_reversed_maps(macro_expansion_maps)
    IN  /\ Len(rev) = Len(macro_expansion_maps)
        /\ \A g \in 1..Len(macro_expansion_maps) :
              LET fwd == macro_expansion_maps[g][2]
                  bwd == rev[g][2]
              IN  /\ rev[g][1] = macro_expansion_maps[g][1]
                  /\ { bwd[i][1] : i \in 1..Len(bwd) } = { fwd[i][2] : i \in 1..Len(fwd) }
                  /\ \A i, j \in 1..Len(bwd) : i # j => bwd[i][1] # bwd[j][1]
                  /\ \A i \in 1..Len(bwd) :
                        bwd[i][2] = fwd[Max({ j \in 1..Len(fwd) : fwd[j][2] = bwd[i][1] })][1]

\* An unexpand through a glob pattern two of whose tokens share a
\* replacement: the text comes back with the later token.
C15_Witness ==
    /\ mpc = "unexpanded"
    /\ ~unexpanded.err
    /\ unexpanded.text # text
    /\ \E g \in 1..Len(macro_expansion_maps) :
          LET fwd == macro_expansion_maps[g][2]
          IN  /\ fnmatch(relative_path, macro_expansion_maps[g][1])
              /\ Len(fwd) = 2
              /\ fwd[1][2] = fwd[2][2]
              /\ fwd[1][2] # <<>>
              /\ text = fwd[1][1]
              /\ expanded.text = fwd[1][2]
              /\ unexpanded.text = fwd[2][1]

----------------------------------------------------------------------------
(* Further properties of a run (checked under Spec)                        *)

\* The processable files under the downloaded-results root.
TranslatedResults == { p \in AllPaths : downloaded[p].exists /\ ~IsPassThroughFile(p) }

\* C16: postprocess dispatches exactly the processable files found under the
\* downloaded-results root, each once and starting from the empty text, and
\* on success each of them has its output file; a path with no translated
\* result is not postprocessed.
C16_PostprocessEnumeration ==
    process_func = "_postprocess_file" =>
        /\ \A p \in AllPaths \ TranslatedResults :
              /\ futures[p].st = "none"
              /\ calls["_postprocess_file"][p] = <<>>
        /\ visited = AllPaths => Dispatched = TranslatedResults
        /\ \A p \in AllPaths :
              calls["_postprocess_file"][p] # <<>>
                 => calls["_postprocess_file"][p][1].inp = <<>>
        /\ cpc = "success" => \A p \in TranslatedResults : output_files[p].exists

----------------------------------------------------------------------------
(* Properties of a run with an intermediate directory (checked under      *)
(* SpecIntermediate)                                                       *)

IsIntermediatePath(p) == IsPrefixAt(IntermediateDir \o <<"/">>, p, 1)

\* The files of the input tree that a run without an intermediate directory
\* processes.
OriginalFiles == { p \in AllPaths : ~IsIntermediatePath(p) /\ ~IsIgnoredPath(p) }

\* C17: with an intermediate directory configured, wherever it lies, a run
\* processes, uploads and writes what the run without it does: the tasks
\* dispatched by preprocess and by postprocess are those of the files of the
\* input tree, the uploaded and output texts are the chain applied to those
\* files, nothing else is uploaded or written, and a batch fails only when
\* the task of one of those files failed.
C17_IntermediateNonInterference ==
    _intermediate_path # "None" =>
        /\ \A p \in AllPaths \ OriginalFiles :
              /\ futures[p].st = "none"
              /\ calls["_preprocess_file"][p] = <<>>
              /\ calls["_postprocess_file"][p] = <<>>
              /\ ~uploaded[p].exists
              /\ ~output_files[p].exists
        /\ (InProcess /\ visited = AllPaths) => Dispatched = OriginalFiles
        /\ \A p \in OriginalFiles :
              /\ uploaded[p].exists =>
                    uploaded[p] = Blob(ChainPre(UserProcessors, p, Ok(input_tree[p].text)).text)
              /\ output_files[p].exists =>
                    output_files[p] = Blob(ChainPost(UserProcessors, p, Ok(downloaded[p].text)).text)
        /\ cpc \in {"preprocess_raised", "postprocess_raised"}
              => \E p \in OriginalFiles : futures[p].st = "failed"

----------------------------------------------------------------------------
(* Properties of the command line (checked under SpecCli)                  *)

PostprocessCompletes == tpc = "postprocess" /\ tpc' = "done"

\* C18: when postprocess has completed, the .tmp staging directory does not
\* exist if clean_up_tmp_files is true or absent from the configuration, and
\* if it is configured false the directory is as postprocess found it:
\* existing, with the same uploads and downloads.
C18_Cleanup ==
    /\ []((tpc = "done" /\ subcommand = "translate") =>
            /\ clean_up_key \in {"absent", "true"} => ~tmp_path.exists
            /\ clean_up_key = "false" => tmp_path.exists /\ tmp_path.upload = gcs_input)
    /\ [][ PostprocessCompletes =>
              /\ clean_up_tmp_files => ~tmp_path'.exists
              /\ ~clean_up_tmp_files => tmp_path.exists /\ tmp_path' = tmp_path ]_vars

\* A run with no clean_up_tmp_files key that staged, downloaded and wrote
\* its outputs, and whose .tmp directory is gone.
C18_Witness ==
    /\ tpc = "done"
    /\ subcommand = "translate"
    /\ clean_up_key = "absent"
    /\ gcs_input # {}
    /\ gcs_input \subseteq output_path.entries
    /\ ~tmp_path.exists

ValidationFailed ==
    /\ tpc = "exited"
    /\ \/ config_yaml # "valid" /\ raised = "AssertionError"
       \/ raised = "CredentialError"
       \/ raised = "ValidationError"

\* C19: when the command has ended on a configuration validation failure, a
\* credential failure or a macros schema failure, the output path and the
\* staging directory are as they were when the command was started (nothing
\* cleared, nothing created), nothing was uploaded, no job was submitted, and
\* the command does not go on.
C19_ValidationFailuresEarly ==
    /\ [](ValidationFailed =>
            /\ output_path = start_fs[1]
            /\ tmp_path = start_fs[2]
            /\ gcs_input = {}
            /\ ~job_submitted)
    /\ [][ ValidationFailed => UNCHANGED <<tpc, raised, output_path, tmp_path>> ]_vars

\* C20: validated_nonexistent_path, as argument parsing applies it: a path
\* that does not exist is returned and nothing changes; a path that exists
\* is, with force (translate --output), gone when the call returns, and
\* without force (init) ArgumentTypeError is raised and nothing changes.
C20_OutputPathValidation ==
    [][ (tpc = "args" /\ tpc' # "args") =>
           /\ tmp_path' = tmp_path
           /\ output_path.kind = "absent" =>
                 raised' = "none" /\ output_path' = output_path
           /\ (output_path.kind # "absent" /\ subcommand = "translate") =>
                 raised' = "none" /\ output_path'.kind = "absent"
           /\ (output_path.kind # "absent" /\ subcommand = "init") =>
                 raised' = "ArgumentTypeError" /\ output_path' = output_path ]_vars

----------------------------------------------------------------------------
(* Properties of the remote locations and of job submission (checked       *)
(* under Spec)                                                             *)

GcsCalled(func, p) ==
    \E i \in 1..Len(calls[func][p]) : _processors[calls[func][p][i].proc].cls = "GcsProcessor"

\* C21: the upload and download roots of the pipeline are distinct and never
\* change; every blob call of a file's preprocess is an upload to
\* <upload root>/<relative path> and every blob call of its postprocess a
\* download from <download root>/<the same relative path>, in the bucket of
\* the roots; and every job submission was given exactly these two roots as
\* its input and output locations.
C21_RemoteLocations ==
    /\ [](/\ upload_uri # download_uri
          /\ \A c \in storage_calls :
                /\ c.op \in {"upload", "download"}
                /\ c.bucket = upload_uri[2] /\ c.bucket = download_uri[2]
                /\ c.op = "upload" => \E p \in AllPaths :
                      c.blob = BlobName(upload_uri[3], p) /\ GcsCalled("_preprocess_file", p)
                /\ c.op = "download" => \E p \in AllPaths :
                      c.blob = BlobName(download_uri[3], p) /\ GcsCalled("_postprocess_file", p)
          /\ \A p \in AllPaths :
                /\ GcsCalled("_preprocess_file", p) =>
                      [op |-> "upload", bucket |-> upload_uri[2],
                       blob |-> BlobName(upload_uri[3], p)] \in storage_calls
                /\ GcsCalled("_postprocess_file", p) =>
                      [op |-> "download", bucket |-> download_uri[2],
                       blob |-> BlobName(download_uri[3], p)] \in storage_calls
          /\ \A i \in 1..Len(job_requests) :
                job_requests[i] = [gcs_input_path |-> upload_uri,
                                   gcs_output_path |-> download_uri])
    /\ [][upload_uri' = upload_uri /\ download_uri' = download_uri]_vars

\* A successful run in which a file was uploaded, the job was submitted and
\* the same file was downloaded.
C21_Witness ==
    /\ cpc = "success"
    /\ Len(job_requests) = 1
    /\ \E p \in AllPaths :
          /\ GcsCalled("_preprocess_file", p)
          /\ GcsCalled("_postprocess_file", p)
          /\ output_files[p].exists

----------------------------------------------------------------------------
(* Properties of the macro table and of the scan (checked under SpecMacro) *)

\* The <<entry, item>> indices of a table.
ItemIndices(maps) ==
    UNION { { <<g, j>> : j \in 1..Len(maps[g][2]) } : g \in 1..Len(maps) }

TableTokens(maps) == { maps[x[1]][2][x[2]][1] : x \in ItemIndices(maps) }

\* C22: every token of the table a MacroProcessor was constructed with, and
\* of its reversed table, is non-empty, and no alternative of the pattern
\* compiled from a table with tokens for the path matches the empty string.
C22_TokensNonEmpty ==
    mpc # "idle" =>
        /\ <<>> \notin TableTokens(macro_expansion_maps)
        /\ <<>> \notin TableTokens(_get_reversed_maps(macro_expansion_maps))
        /\ \A rev \in BOOLEAN :
              LET m == _get_all_regex_pattern_mapping(macro_expansion_maps, relative_path, rev)
              IN  m # <<>> => \A k \in 1..Len(m) : RegexLiteral(m[k][1]) # <<>>

TokensAt(items, t) == { it \in items : IsPrefixAt(it[1], t, 1) }

\* out is t scanned once from the left: where some token of items starts,
\* one such token is consumed and its value emitted; where none starts, one
\* character is copied.  What was emitted is not looked at again.
RECURSIVE SinglePass(_, _, _)
SinglePass(t, out, items) ==
    IF t = <<>> THEN out = <<>>
    ELSE IF TokensAt(items, t) = {}
         THEN /\ out # <<>>
              /\ Head(out) = Head(t)
              /\ SinglePass(Tail(t), Tail(out), items)
         ELSE \E it \in TokensAt(items, t) :
                 /\ IsPrefixAt(it[2], out, 1)
                 /\ SinglePass(Drop(t, Len(it[1])), Drop(out, Len(it[2])), items)

Scannable(items) == items # {} /\ \A it \in items : it[1] # <<>>

\* C23: when tokens are declared for the path and none is empty, expand
\* returns the text scanned once from the left, every leftmost
\* non-overlapping token occurrence replaced by a value declared for it and
\* nothing that was produced by a replacement replaced again; unexpand does
\* the same with the replacement values as tokens.
C23_SinglePass ==
    LET items == DeclaredItems(macro_expansion_maps, relative_path)
    IN  /\ (mpc \in {"expanded", "unexpanded"} /\ Scannable(items)) =>
              ~expanded.err /\ SinglePass(text, expanded.text, items)
        /\ (mpc = "unexpanded" /\ Scannable(SwappedItems(items))) =>
              ~unexpanded.err /\ SinglePass(expanded.text, unexpanded.text, SwappedItems(items))

\* The macros {a -> $, $ -> a}: expanding a text that holds "a" gives "$"
\* there, which is a token itself and is left as it is.
C23_Witness ==
    /\ mpc = "expanded"
    /\ DeclaredItems(macro_expansion_maps, relative_path)
          = { << <<"a">>, <<"$">> >>, << <<"$">>, <<"a">> >> }
    /\ text = <<"a", "a", "$">>
    /\ expanded = Ok(<<"$", "$", "a">>)

Before(x, y) == x[1] < y[1] \/ (x[1] = y[1] /\ x[2] < y[2])

\* Where the tokens of the table's entries for path that start t stand, as
\* <<entry, item>> indices.
StartingAt(maps, path, t) ==
    { x \in ItemIndices(maps) :
         /\ fnmatch(path, maps[x[1]][1])
         /\ IsPrefixAt(maps[x[1]][2][x[2]][1], t, 1) }

\* The first token, in insertion order of the merged map, that starts t.
FirstToken(maps, path, t) ==
    LET S == StartingAt(maps, path, t)
        f == CHOOSE x \in S : \A y \in S : x = y \/ Before(x, y)
    IN  maps[f[1]][2][f[2]][1]

\* out is t scanned once from the left, and wherever tokens start it is the
\* first of them in insertion order that is consumed.
RECURSIVE FirstPass(_, _, _, _)
FirstPass(t, out, maps, path) ==
    IF t = <<>> THEN out = <<>>
    ELSE IF StartingAt(maps, path, t) = {}
         THEN /\ out # <<>>
              /\ Head(out) = Head(t)
              /\ FirstPass(Tail(t), Tail(out), maps, path)
         ELSE LET k == FirstToken(maps, path, t)
              IN  \E it \in DeclaredItems(maps, path) :
                     /\ it[1] = k
                     /\ IsPrefixAt(it[2], out, 1)
                     /\ FirstPass(Drop(t, Len(k)), Drop(out, Len(it[2])), maps, path)

\* C24: when several tokens of the merged map start at the same position
\* of the text, one call replaces exactly one of them there: the first in
\* insertion order of the merged map, also when a longer one starts there
\* too.  The same holds for unexpand over the reversed table.
C24_OneTokenPerPosition ==
    LET items == DeclaredItems(macro_expansion_maps, relative_path)
    IN  /\ (mpc \in {"expanded", "unexpanded"} /\ Scannable(items)) =>
              FirstPass(text, expanded.text, macro_expansion_maps, relative_path)
        /\ (mpc = "unexpanded" /\ Scannable(SwappedItems(items))) =>
              FirstPass(expanded.text, unexpanded.text,
                        _get_reversed_maps(macro_expansion_maps), relative_path)

\* The tokens "a" and, after it, "a$" both start the text "a$": "a" is
\* replaced and the "$" is copied.
C24_Witness ==
    /\ mpc = "expanded"
    /\ _get_all_regex_pattern_mapping(macro_expansion_maps, relative_path, FALSE)
          = << << escape(<<"a">>), <<"$">> >>, << escape(<<"a", "$">>), <<"a">> >> >>
    /\ text = <<"a", "$">>
    /\ expanded = Ok(<<"$", "$">>)

\* t with every leftmost non-overlapping occurrence of v replaced by k.
RECURSIVE ReplaceAll(_, _, _)
ReplaceAll(t, v, k) ==
    IF t = <<>> THEN <<>>
    ELSE IF IsPrefixAt(v, t, 1)
         THEN k \o ReplaceAll(Drop(t, Len(v)), v, k)
         ELSE <<Head(t)>> \o ReplaceAll(Tail(t), v, k)

\* C30: what unexpand returns is determined by the path and the text it is
\* given: every leftmost non-overlapping occurrence of a replacement value
\* declared for the path is rewritten to a token declared for that value,
\* whether expand produced the occurrence or it was in the text before; with
\* one macro k -> v declared for the path, the result is the text given with
\* every occurrence of v replaced by k.
C30_UnexpandMemoryless ==
    LET items == DeclaredItems(macro_expansion_maps, relative_path)
    IN  (mpc = "unexpanded" /\ Scannable(SwappedItems(items))) =>
           /\ ~unexpanded.err
           /\ SinglePass(expanded.text, unexpanded.text, SwappedItems(items))
           /\ \A it \in items :
                 items = {it} => unexpanded.text = ReplaceAll(expanded.text, it[2], it[1])

\* The macro "$" -> "a" and the text "a$": the "a" that was in the text
\* comes back as "$" too, so the text does not come back.
C30_Witness ==
    /\ mpc = "unexpanded"
    /\ DeclaredItems(macro_expansion_maps, relative_path) = { << <<"$">>, <<"a">> >> }
    /\ text = <<"a", "$">>
    /\ expanded = Ok(<<"a", "a">>)
    /\ unexpanded = Ok(<<"$", "$">>)

----------------------------------------------------------------------------
(* Properties of the batch and of the job (checked under Spec)             *)

Surfaces == InProcess /\ cpc' \in {"preprocess_raised", "postprocess_raised"}

Pending == { p \in AllPaths : futures[p].st \in {"queued", "running"} }

InQueue(q, p) == \E i \in 1..Len(q) : q[i] = p

\* C25: the error of a failed task leaves _process only in the await loop,
\* when every path has been visited and every file dispatched; that step
\* changes no task and no store, and no step, before or after it, cancels
\* or drops a dispatched task: a queued task stays in the work queue until
\* a worker starts it and a started task goes on to done or failed.
C25_NoCancellation ==
    /\ [][ Surfaces =>
              /\ visited = AllPaths
              /\ \E p \in AllPaths : futures[p].st = "failed"
              /\ queue' = queue
              /\ \A p \in AllPaths : futures'[p].st = futures[p].st
              /\ UNCHANGED <<uploaded, output_files>> ]_vars
    /\ [][ \A p \in Pending :
              /\ futures'[p].st \in {"queued", "running", "done", "failed"}
              /\ InQueue(queue, p) =>
                    InQueue(queue', p) \/ futures'[p].st = "running" ]_vars
    /\ [](\A p \in AllPaths : futures[p].st = "queued" <=> InQueue(queue, p))

\* The error of one task has surfaced while another dispatched task is
\* still running and has not uploaded yet.
C25_Witness ==
    /\ cpc = "preprocess_raised"
    /\ Running # {}
    /\ \E p \in Running : ~uploaded[p].exists

----------------------------------------------------------------------------
(* Properties of the snapshots (checked under SpecIntermediate)            *)

FileFinished(p) == futures[p].st = "done"

\* C26: with an intermediate directory configured (outside the input
\* directory), once a file's preprocess or postprocess has finished, for
\* every processor step that ran for it the snapshot stored for that
\* processor, that direction and that path holds the text the step
\* returned: no snapshot of one step was overwritten by another step's.
C26_SnapshotKeys ==
    _intermediate_path = "outside" =>
        \A p \in AllPaths :
            FileFinished(p) =>
                \A i \in 1..Len(calls[process_func][p]) :
                    LET c == calls[process_func][p][i]
                    IN  intermediate_files[<<_processors[c.proc].cls, process_func, p>>]
                           = [exists |-> TRUE, text |-> c.out.text]

----------------------------------------------------------------------------
(* Properties of the polling loop (checked under SpecPolling)              *)

InWait == cpc \in {"wait", "poll"}

\* C27: _wait_until_job_finished terminates: once entered, the loop is
\* left; every iteration sleeps before it polls, is entered only while the
\* elapsed time is below length_seconds and advances the clock by at least
\* the 5 second sleep, so that a poll happens at no more than
\* length_seconds / 5 distinct clock values; and the loop is left by
\* returning on a COMPLETED or PAUSED status, or by exiting once the elapsed
\* time has reached length_seconds (or on a poll that does not return).
C27_PollingTerminates ==
    /\ (cpc = "wait") ~> ~InWait
    /\ [][ (cpc = "wait" /\ cpc' = "poll") =>
              /\ clock < length_seconds
              /\ clock' >= clock + SleepSeconds
              /\ processing_seconds' = clock' ]_vars
    /\ [][ (InWait /\ InWait') => clock' >= clock ]_vars
    /\ [][ (InWait /\ ~InWait') =>
              \/ cpc = "poll" /\ cpc' = "wait_returned" /\ job_status' \in _JOB_FINISHED_STATES
              \/ cpc = "wait" /\ cpc' = "exited" /\ processing_seconds >= length_seconds
              \/ cpc = "poll" /\ cpc' = "poll_raised" ]_vars

\* A job that never finished: the controller has left the loop by the
\* timeout exit.
C27_Witness ==
    /\ cpc = "exited"
    /\ workflow_state = "RUNNING"
    /\ job_status = "RUNNING"
    /\ processing_seconds >= length_seconds
    /\ postprocess_calls = 0

----------------------------------------------------------------------------
(* Properties of job submission (checked under Spec)                       *)

PreprocessTaskRaised ==
    \E p \in AllPaths : \E i \in 1..Len(calls["_preprocess_file"][p]) :
        calls["_preprocess_file"][p][i].out.err

JobCreated == job_requests' # job_requests

\* C28: a run creates the translation job at most once, and only when
\* preprocess has returned normally: every path was visited, every
\* dispatched preprocess task is done and its upload is in place.  If a
\* preprocess task raised, no job is ever created, the job is never polled
\* and postprocess is never called.
C28_JobCreatedOnce ==
    /\ [](Len(job_requests) <= 1)
    /\ [][ JobCreated =>
              /\ cpc = "create"
              /\ job_requests = <<>>
              /\ process_func = "_preprocess_file"
              /\ visited = AllPaths
              /\ queue = <<>>
              /\ \A p \in AllPaths :
                    IF Submitted(input_tree, p)
                    THEN futures[p].st = "done" /\ futures[p].yielded /\ uploaded[p].exists
                    ELSE futures[p].st = "none" ]_vars
    /\ [](PreprocessTaskRaised =>
              /\ job_requests = <<>>
              /\ workflow_state = "NONE"
              /\ job_status = "NONE"
              /\ job_state = "NotStarted"
              /\ postprocess_calls = 0
              /\ cpc \in {"preprocess", "preprocess_raised"})

\* The job has just been created, after both files of the input were
\* uploaded.
C28_Witness ==
    /\ cpc = "wait"
    /\ Len(job_requests) = 1
    /\ clock = 0
    /\ Cardinality({ p \in AllPaths : uploaded[p].exists }) = 2

\* C29: the timeout exit is taken only after at least one poll, and only
\* when the most recent poll returned a status that is not COMPLETED or
\* PAUSED; every poll follows a sleep of at least the fixed interval; and a
\* poll that returns COMPLETED or PAUSED makes the loop return, whatever the
\* elapsed time at that poll, after which postprocess is called.
C29_LastPollHonoured ==
    /\ [][ (cpc # "exited" /\ cpc' = "exited") =>
              /\ cpc = "wait"
              /\ job_status # "NONE"
              /\ job_status \notin _JOB_FINISHED_STATES ]_vars
    /\ [][ (cpc # "poll" /\ cpc' = "poll") =>
              cpc = "wait" /\ clock' >= clock + SleepSeconds ]_vars
    /\ [][ (cpc = "poll" /\ cpc' \notin {"poll", "poll_raised"}) =>
              /\ job_status' = workflow_state
              /\ cpc' = IF workflow_state \in _JOB_FINISHED_STATES
                        THEN "wait_returned" ELSE "wait" ]_vars
    /\ [][ (cpc = "wait_returned" /\ cpc' # cpc) =>
              cpc' = "postprocess" /\ postprocess_calls' = postprocess_calls + 1 ]_vars
    /\ [](cpc = "wait_returned" => job_status \in _JOB_FINISHED_STATES)

\* The poll made when the elapsed time had already reached the ceiling
\* returned a finished status, and the loop has returned.
C29_Witness ==
    /\ cpc = "wait_returned"
    /\ processing_seconds >= length_seconds
    /\ job_status \in _JOB_FINISHED_STATES
    /\ exit_code = -1

====
